---- MODULE Spec2Model ----
(***************************************************************************)
(* Frame transport between a producer and a consumer process:              *)
(*   - the shared-memory single-slot channel (data_source_shm.py,          *)
(*     inference_shm.py) and its GPU-pointer variant (data_source_gpu.py,  *)
(*     inference_gpu.py),                                                  *)
(*   - the length-prefixed socket channel (data_source.py, inference.py),  *)
(*   - the bounded connect / attach retry loops of the consumers.          *)
(*                                                                         *)
(* A segment is a sequence of bytes (offset o is index o+1).  A frame is a *)
(* numpy array of shape (h, w, c): a record with its shape and a function  *)
(* px from index triples <<i, j, k>> (0-based) to bytes.                   *)
(***************************************************************************)
EXTENDS Integers, Sequences, FiniteSets, TLC

(***************************************************************************)
(* Bounds of the model.  The channel maxima are configuration              *)
(* (shared_memory.max_width / max_height / max_channels); the model        *)
(* configures a small segment.                                             *)
(***************************************************************************)
MAX_WIDTH == 2
MAX_HEIGHT == 2
MAX_CHANNELS == 1
\* frames of at most this many bytes are enumerated with every payload
FullPayload == 2
\* write calls explored in one run of the shared-memory producer
MaxWrites == 2

SHM_META_SIZE == 12
SHM_DATA_SIZE == MAX_WIDTH * MAX_HEIGHT * MAX_CHANNELS * 1
SHM_TOTAL_SIZE == SHM_META_SIZE + SHM_DATA_SIZE

\* values beyond this stand for "more than any length the model compares with"
IntCap == 1000000000

\* a * b for naturals, saturating at IntCap (Python integers do not overflow)
Mul(a, b) ==
    IF a = 0 \/ b = 0 THEN 0
    ELSE IF a >= IntCap \/ b >= IntCap \/ a > IntCap \div b THEN IntCap
    ELSE a * b

Min(a, b) == IF a <= b THEN a ELSE b

(***************************************************************************)
(* struct.pack("I", n) / struct.unpack("I", b): 4 bytes, native            *)
(* (little-endian) order.                                                  *)
(***************************************************************************)
pack_I_be(n) ==
    << (n \div 16777216) % 256, (n \div 65536) % 256, (n \div 256) % 256, n % 256 >>

pack_I(n) ==
    << n % 256, (n \div 256) % 256, (n \div 65536) % 256, (n \div 16777216) % 256 >>

unpack_I(b) == b[1] + 256 * b[2] + 65536 * b[3] + 16777216 * b[4]

\* a[start:end] of a numpy array / bytes object: clipped to the array's length
Slice(a, start, end) ==
    LET e == Min(end, Len(a))
    IN  IF start >= e THEN << >> ELSE [n \in 1..(e - start) |-> a[start + n]]

\* a[start:start+Len(v)] = v, for a slice that lies inside a
SetSlice(a, start, v) ==
    [n \in 1..Len(a) |-> IF n > start /\ n <= start + Len(v) THEN v[n - start] ELSE a[n]]

(***************************************************************************)
(* Frames                                                                  *)
(***************************************************************************)
Index(h, w, c) == (0..(h - 1)) \X (0..(w - 1)) \X (0..(c - 1))

None == [isNone |-> TRUE, h |-> 0, w |-> 0, c |-> 0, px |-> << >>]

Frame(h, w, c, px) == [isNone |-> FALSE, h |-> h, w |-> w, c |-> c, px |-> px]

\* frame.flatten() / frame.tobytes(): column-major order (the mutant)
flatten_colmajor(frame) ==
    LET h == frame.h  w == frame.w  c == frame.c
    IN  [n \in 1..(h * w * c) |->
            frame.px[<< (n - 1) % h, ((n - 1) \div h) % w, (n - 1) \div (h * w) >>]]

\* frame.flatten() / frame.tobytes(): the bytes in row-major (C) order
flatten(frame) ==
    LET h == frame.h  w == frame.w  c == frame.c
    IN  [n \in 1..(h * w * c) |->
            frame.px[<< (n - 1) \div (w * c), ((n - 1) \div c) % w, (n - 1) % c >>]]

\* data.reshape((h, w, c)) taking (w, h, c) for the shape (the mutant)
reshape_swapped(data, h, w, c) ==
    Frame(w, h, c, [t \in Index(w, h, c) |-> data[t[1] * h * c + t[2] * c + t[3] + 1]])

\* data.reshape((h, w, c)), defined when Len(data) = h*w*c (else numpy raises)
reshape(data, h, w, c) ==
    Frame(h, w, c, [t \in Index(h, w, c) |-> data[t[1] * w * c + t[2] * c + t[3] + 1]])

ReshapeRaises(data, h, w, c) == Len(data) # Mul(Mul(h, w), c)

(***************************************************************************)
(* Frames the producer's source can yield: every shape with dimensions in  *)
(* 1..max+1 (so that each maximum can be exceeded), pixel bytes 0 / 255.   *)
(***************************************************************************)
PixelVals == {0, 255}

Shapes == (1..(MAX_HEIGHT + 1)) \X (1..(MAX_WIDTH + 1)) \X (1..(MAX_CHANNELS + 1))

\* all-v frames, and the frame whose first column (j = 0) is 255
PatternFrames(h, w, c) ==
    {Frame(h, w, c, [t \in Index(h, w, c) |-> v]) : v \in PixelVals}
    \cup {Frame(h, w, c, [t \in Index(h, w, c) |-> IF t[2] = 0 THEN 255 ELSE 0])}

\* every payload for the small shapes, the patterns for the shapes that fit,
\* one frame for each shape that exceeds a maximum
FramesOfShape(h, w, c) ==
    IF h * w * c <= FullPayload
    THEN {Frame(h, w, c, px) : px \in [Index(h, w, c) -> PixelVals]}
    ELSE IF h <= MAX_HEIGHT /\ w <= MAX_WIDTH /\ c <= MAX_CHANNELS
         THEN PatternFrames(h, w, c)
         ELSE {Frame(h, w, c, [t \in Index(h, w, c) |-> IF t[2] = 0 THEN 255 ELSE 0])}

ShmFrames == UNION {FramesOfShape(s[1], s[2], s[3]) : s \in Shapes}

\* the claim-side notion of a frame that exceeds a configured maximum
Exceeds(frame) ==
    frame.w > MAX_WIDTH \/ frame.h > MAX_HEIGHT \/ frame.c > MAX_CHANNELS

(***************************************************************************)
(* data_source_shm.write_frame_to_shm: the new segment content and the     *)
(* return value.                                                           *)
(***************************************************************************)
\* mutant: the payload area behind the frame is cleared
write_frame_to_shm_clear_tail(seg, frame) ==
    LET h == frame.h  w == frame.w  c == frame.c
    IN  IF w > MAX_WIDTH \/ h > MAX_HEIGHT \/ c > MAX_CHANNELS
        THEN [ret |-> FALSE, seg |-> seg]
        ELSE LET s1 == SetSlice([n \in 1..Len(seg) |-> 0], 0, pack_I(w))
                 s2 == SetSlice(s1, 4, pack_I(h))
                 s3 == SetSlice(s2, 8, pack_I(c))
                 data_start == SHM_META_SIZE
             IN  [ret |-> TRUE, seg |-> SetSlice(s3, data_start, flatten(frame))]

\* mutant: the header is stored before the size check
write_frame_to_shm_header_first(seg, frame) ==
    LET h == frame.h  w == frame.w  c == frame.c
        s1 == SetSlice(seg, 0, pack_I(w))
        s2 == SetSlice(s1, 4, pack_I(h))
        s3 == SetSlice(s2, 8, pack_I(c))
    IN  IF w > MAX_WIDTH \/ h > MAX_HEIGHT \/ c > MAX_CHANNELS
        THEN [ret |-> FALSE, seg |-> s3]
        ELSE [ret |-> TRUE, seg |-> SetSlice(s3, SHM_META_SIZE, flatten(frame))]

write_frame_to_shm(seg, frame) ==
    LET h == frame.h  w == frame.w  c == frame.c
    IN  IF w > MAX_WIDTH \/ h > MAX_HEIGHT \/ c > MAX_CHANNELS
        THEN [ret |-> FALSE, seg |-> seg]
        ELSE LET s1 == SetSlice(seg, 0, pack_I(w))
                 s2 == SetSlice(s1, 4, pack_I(h))
                 s3 == SetSlice(s2, 8, pack_I(c))
                 data_start == SHM_META_SIZE
             IN  [ret |-> TRUE, seg |-> SetSlice(s3, data_start, flatten(frame))]

(***************************************************************************)
(* inference_shm.read_frame_from_shm: the frame returned, or None.         *)
(***************************************************************************)
\* a read whose payload slice starts at the header (the mutant)
read_frame_from_shm_from_header(seg) ==
    LET w == unpack_I(Slice(seg, 0, 4))
        h == unpack_I(Slice(seg, 4, 8))
        c == unpack_I(Slice(seg, 8, 12))
    IN  IF w = 0 \/ h = 0 \/ c = 0 \/ w > MAX_WIDTH \/ h > MAX_HEIGHT
        THEN None
        ELSE LET data_start == 0
                 data_end == data_start + Mul(Mul(w, h), c)
                 data == Slice(seg, data_start, data_end)
             IN  IF ReshapeRaises(data, h, w, c) THEN None
                 ELSE reshape(data, h, w, c)

read_frame_from_shm(seg) ==
    LET w == unpack_I(Slice(seg, 0, 4))
        h == unpack_I(Slice(seg, 4, 8))
        c == unpack_I(Slice(seg, 8, 12))
    IN  IF w = 0 \/ h = 0 \/ c = 0 \/ w > MAX_WIDTH \/ h > MAX_HEIGHT
        THEN None
        ELSE LET data_start == SHM_META_SIZE
                 data_end == data_start + Mul(Mul(w, h), c)
                 data == Slice(seg, data_start, data_end)
             IN  IF ReshapeRaises(data, h, w, c) THEN None
                 ELSE reshape(data, h, w, c)

\* SharedMemory(create=True, size=SHM_TOTAL_SIZE): a zero-filled segment
FreshSegment == [n \in 1..SHM_TOTAL_SIZE |-> 0]

(***************************************************************************)
(* GPU-pointer variant: a 28-byte header, width, height, channels,         *)
(* gpu_ptr (u64) and frame_id (u64), followed by the same payload area.    *)
(***************************************************************************)
GPU_SHM_META_SIZE == 28
GPU_SHM_TOTAL_SIZE == GPU_SHM_META_SIZE + SHM_DATA_SIZE

\* struct.pack("Q", n) / struct.unpack("Q", b): 8 bytes, little-endian
pack_Q(n) == pack_I(n) \o pack_I((n \div 65536) \div 65536)

\* the low byte only (the mutant)
unpack_Q_low(b) == b[1]

unpack_Q(b) ==
    IF Slice(b, 4, 8) = << 0, 0, 0, 0 >> THEN unpack_I(Slice(b, 0, 4)) ELSE IntCap

NoneTriple == [frame |-> None, shape |-> << >>, frame_id |-> 0, isNone |-> TRUE]

Triple(frame, frame_id) ==
    [frame |-> frame, shape |-> << frame.h, frame.w, frame.c >>,
     frame_id |-> frame_id, isNone |-> FALSE]

(***************************************************************************)
(* inference_gpu.read_gpu_frame_from_shm.  pycuda / torch are the          *)
(* module's PYCUDA_AVAILABLE / TORCH_AVAILABLE; dev is the device memory   *)
(* behind gpu_ptr; devOk and cudaOk say whether the device read and the    *)
(* .to("cuda") transfer succeed (both may raise).                          *)
(***************************************************************************)
read_gpu_frame_from_shm(seg, pycuda, torch, dev, devOk, cudaOk) ==
    LET w == unpack_I(Slice(seg, 0, 4))
        h == unpack_I(Slice(seg, 4, 8))
        c == unpack_I(Slice(seg, 8, 12))
        gpu_ptr == unpack_Q(Slice(seg, 12, 20))
        frame_id == unpack_Q(Slice(seg, 20, 28))
        frame_size == Mul(Mul(w, h), c)
        devData == Slice(dev, 0, frame_size)
        data_start == GPU_SHM_META_SIZE
        data_end == data_start + Mul(Mul(w, h), c)
        data == Slice(seg, data_start, data_end)
        fallback ==
            IF ReshapeRaises(data, h, w, c) THEN NoneTriple
            ELSE IF torch /\ ~cudaOk THEN NoneTriple
            ELSE Triple(reshape(data, h, w, c), frame_id)
    IN  IF w = 0 \/ h = 0 \/ c = 0 \/ w > MAX_WIDTH \/ h > MAX_HEIGHT
        THEN NoneTriple
        ELSE IF gpu_ptr > 0 /\ pycuda /\ torch /\ devOk
                  /\ ~ReshapeRaises(devData, h, w, c)
             THEN Triple(reshape(devData, h, w, c), frame_id)
             ELSE fallback

(***************************************************************************)
(* Socket channel: data_source.send_frame and inference.receive_frame.     *)
(***************************************************************************)
\* struct.pack("III", ...) given (h, w, c) for (w, h, c) (the mutant)
pack_III_hwc(w, h, c) == pack_I(h) \o pack_I(w) \o pack_I(c)

\* struct.pack("III", w, h, c): three unsigned 32-bit integers, no padding
pack_III(w, h, c) == pack_I(w) \o pack_I(h) \o pack_I(c)

\* an unpack that takes the height first
unpack_III_hwc(meta_data) ==
    [w |-> unpack_I(Slice(meta_data, 4, 8)),
     h |-> unpack_I(Slice(meta_data, 0, 4)),
     c |-> unpack_I(Slice(meta_data, 8, 12))]

\* w, h, c = struct.unpack("III", meta_data)
unpack_III(meta_data) ==
    [w |-> unpack_I(Slice(meta_data, 0, 4)),
     h |-> unpack_I(Slice(meta_data, 4, 8)),
     c |-> unpack_I(Slice(meta_data, 8, 12))]

SANITY_BOUND == 10000
RECV_CHUNK == 4096

\* the header check without the 10000 bound (the mutant)
header_invalid_zero_only(w, h, c) == w = 0 \/ h = 0 \/ c = 0

\* inference.py:66
header_invalid(w, h, c) ==
    w = 0 \/ h = 0 \/ c = 0 \/ w > SANITY_BOUND \/ h > SANITY_BOUND

\* the first k bytes of a buffer, and what is left of it
Take(buf, k) == Slice(buf, 0, k)
Drop(buf, k) == Slice(buf, k, Len(buf))

\* meta_data = chunk instead of meta_data += chunk (the mutant)
accumulate_overwrite(acc, chunk) == chunk

\* meta_data += chunk / frame_data += chunk
accumulate(acc, chunk) == acc \o chunk

(***************************************************************************)
(* GPU producer: GPUCameraCapture.read_to_gpu and write_gpu_frame_to_shm.  *)
(***************************************************************************)
\* the result of read_to_gpu and the frame_id the capture object keeps.
\* captured: cap.read() delivered a frame; c: its channel count (the frame
\* is resized to width x height = MAX_WIDTH x MAX_HEIGHT); pycuda: the
\* device buffer is in use; copyOk: cuda.memcpy_htod did not raise.
read_to_gpu_no_increment(frame_id, captured, c, pycuda, copyOk) ==
    IF ~captured
    THEN [success |-> FALSE, gpu_ptr |-> 0, shape |-> << >>, frame_id |-> frame_id,
          kept |-> frame_id]
    ELSE IF pycuda
         THEN IF copyOk
              THEN [success |-> TRUE, gpu_ptr |-> 4096,
                    shape |-> << MAX_HEIGHT, MAX_WIDTH, c >>,
                    frame_id |-> frame_id + 1, kept |-> frame_id + 1]
              ELSE [success |-> FALSE, gpu_ptr |-> 0,
                    shape |-> << MAX_HEIGHT, MAX_WIDTH, c >>,
                    frame_id |-> frame_id, kept |-> frame_id]
         ELSE [success |-> TRUE, gpu_ptr |-> 0,
               shape |-> << MAX_HEIGHT, MAX_WIDTH, c >>,
               frame_id |-> frame_id, kept |-> frame_id]

read_to_gpu(frame_id, captured, c, pycuda, copyOk) ==
    IF ~captured
    THEN [success |-> FALSE, gpu_ptr |-> 0, shape |-> << >>, frame_id |-> frame_id,
          kept |-> frame_id]
    ELSE IF pycuda
         THEN IF copyOk
              THEN [success |-> TRUE, gpu_ptr |-> 4096,
                    shape |-> << MAX_HEIGHT, MAX_WIDTH, c >>,
                    frame_id |-> frame_id + 1, kept |-> frame_id + 1]
              ELSE [success |-> FALSE, gpu_ptr |-> 0,
                    shape |-> << MAX_HEIGHT, MAX_WIDTH, c >>,
                    frame_id |-> frame_id, kept |-> frame_id]
         ELSE [success |-> TRUE, gpu_ptr |-> 0,
               shape |-> << MAX_HEIGHT, MAX_WIDTH, c >>,
               frame_id |-> frame_id + 1, kept |-> frame_id + 1]

\* the size check of write_gpu_frame_to_shm; shape is (h, w, c) or None (<< >>)
gpu_write_rejected(shape) ==
    \/ shape = << >>
    \/ shape[2] > MAX_WIDTH \/ shape[1] > MAX_HEIGHT \/ shape[3] > MAX_CHANNELS

\* a write that also stores into the payload area in CPU mode
gpu_header_stores_with_payload(gpu_ptr, shape, frame_id) ==
    << [at |-> 0, bytes |-> pack_I(shape[2])],
       [at |-> 4, bytes |-> pack_I(shape[1])],
       [at |-> 8, bytes |-> pack_I(shape[3])],
       [at |-> 12, bytes |-> pack_Q(gpu_ptr)],
       [at |-> 20, bytes |-> pack_Q(frame_id)] >>
    \o (IF gpu_ptr = 0 THEN << [at |-> GPU_SHM_META_SIZE, bytes |-> << 0 >>] >> ELSE << >>)

\* the stores of an accepted write_gpu_frame_to_shm, in program order:
\* each is one slice assignment shm_array[a:b] = bytes
gpu_header_stores(gpu_ptr, shape, frame_id) ==
    << [at |-> 0, bytes |-> pack_I(shape[2])],
       [at |-> 4, bytes |-> pack_I(shape[1])],
       [at |-> 8, bytes |-> pack_I(shape[3])],
       [at |-> 12, bytes |-> pack_Q(gpu_ptr)],
       [at |-> 20, bytes |-> pack_Q(frame_id)] >>

RECURSIVE ApplyStores(_, _)
ApplyStores(seg, stores) ==
    IF stores = << >> THEN seg
    ELSE ApplyStores(SetSlice(seg, Head(stores).at, Head(stores).bytes), Tail(stores))

\* write_gpu_frame_to_shm as one call
write_gpu_frame_to_shm(seg, gpu_ptr, shape, frame_id) ==
    IF gpu_write_rejected(shape)
    THEN [ret |-> FALSE, seg |-> seg]
    ELSE [ret |-> TRUE, seg |-> ApplyStores(seg, gpu_header_stores(gpu_ptr, shape, frame_id))]

\* the header reads of read_gpu_frame_from_shm, in program order
gpu_header_loads == << [at |-> 0, n |-> 4], [at |-> 4, n |-> 4], [at |-> 8, n |-> 4],
                       [at |-> 12, n |-> 8], [at |-> 20, n |-> 8] >>

(***************************************************************************)
(* write_frame_to_shm and read_frame_from_shm as sequences of memory       *)
(* accesses: the three header slice stores in program order, then the      *)
(* payload copy byte by byte; the three header loads, then the payload     *)
(* copy byte by byte.                                                      *)
(***************************************************************************)
\* payload first, header last (the mutant)
shm_stores_payload_first(frame) ==
    [i \in 1..Len(flatten(frame)) |->
         [at |-> SHM_META_SIZE + i - 1, bytes |-> << flatten(frame)[i] >>]]
    \o << [at |-> 0, bytes |-> pack_I(frame.w)],
          [at |-> 4, bytes |-> pack_I(frame.h)],
          [at |-> 8, bytes |-> pack_I(frame.c)] >>

\* the stores of an accepted write_frame_to_shm(shm, frame), in order
shm_stores(frame) ==
    << [at |-> 0, bytes |-> pack_I(frame.w)],
       [at |-> 4, bytes |-> pack_I(frame.h)],
       [at |-> 8, bytes |-> pack_I(frame.c)] >>
    \o [i \in 1..Len(flatten(frame)) |->
            [at |-> SHM_META_SIZE + i - 1, bytes |-> << flatten(frame)[i] >>]]

\* the number of payload bytes the slice shm_array[data_start:data_end] of
\* read_frame_from_shm holds: the slice ends at the end of the segment
payload_slice_len(w, h, c) == Min(Mul(Mul(w, h), c), SHM_DATA_SIZE)

(***************************************************************************)
(* Life cycle of the named segment: creation, attach, close and unlink by  *)
(* the four programs that take SHM_NAME from config.shared_memory.name.    *)
(***************************************************************************)
\* the size data_source_shm.main passes to SharedMemory(create=True),
\* without the header (the mutant)
create_size_no_header == SHM_DATA_SIZE

\* the size data_source_shm.main passes to SharedMemory(create=True)
create_size == SHM_TOTAL_SIZE

\* the shared-memory calls of each program's finally block without the
\* producers' unlink (the mutant)
finally_steps_no_unlink(program) ==
    IF program = "inference_shm" THEN << "close", "unlink" >> ELSE << "close" >>

\* the shared-memory calls of each program's finally block, in order
finally_steps(program) ==
    IF program \in {"data_source_shm", "data_source_gpu", "inference_shm"}
    THEN << "close", "unlink" >>
    ELSE << "close" >>

\* SharedMemory.unlink(): shm_unlink of the NAME; raises FileNotFoundError
\* (caught by every caller) when the name refers to nothing.  names: the
\* segment the name refers to (0: none); segs: every segment created.
unlink_by_name(names, segs, who, ownerLive) ==
    IF names = 0 THEN [names |-> 0, segs |-> segs]
    ELSE [names |-> 0,
          segs |-> [segs EXCEPT ![names] =
                       [@ EXCEPT !.unlinker = who, !.owner_live = ownerLive]]]


(***************************************************************************)
(* data_source.py: the sending side of the socket channel.                 *)
(***************************************************************************)
\* sock.sendall(data): either every byte is handed to the connection, or an
\* exception is raised after some prefix of it was
sendall(data) ==
    {[ok |-> TRUE, bytes |-> data]}
    \cup {[ok |-> FALSE, bytes |-> Slice(data, 0, k)] : k \in 0..(Len(data) - 1)}

\* the two sendall calls of send_frame, in order
send_frame_calls(frame) == << pack_III(frame.w, frame.h, frame.c), flatten(frame) >>

\* a main loop that waits for another client after a failed send
after_send_frame_accept_again(ok) == IF ok THEN "capture" ELSE "accept"

\* a main loop that tries the same frame again after a failed send
after_send_frame_retry(ok) == IF ok THEN "capture" ELSE "send1"

\* data_source.main after send_frame returned: sleep and capture the next
\* frame, or break
after_send_frame(ok) == IF ok THEN "capture" ELSE "finally"

\* sock.close() in the finally block, skipped for a socket that is None
close_if_set(sock) == IF sock = "none" THEN "none" ELSE "closed"


(***************************************************************************)
(* The main loops of inference.py and inference_shm.py: what a cycle does  *)
(* with the result of its read.                                            *)
(***************************************************************************)
\* a loop body that forgets last_frame when a read returns no frame
select_frame_drop_last(frame, last) ==
    IF frame.isNone
    THEN [infer |-> FALSE, frame |-> None, last_frame |-> None]
    ELSE [infer |-> TRUE, frame |-> frame, last_frame |-> frame]

\* a loop body that falls back to last_frame without testing it
select_frame_no_guard(frame, last) ==
    IF frame.isNone
    THEN [infer |-> TRUE, frame |-> last, last_frame |-> last]
    ELSE [infer |-> TRUE, frame |-> frame, last_frame |-> frame]

\* from the read to model.predict: whether predict is called, the frame it
\* is called with, and last_frame afterwards
select_frame(frame, last) ==
    IF frame.isNone
    THEN IF last.isNone
         THEN [infer |-> FALSE, frame |-> None, last_frame |-> last]
         ELSE [infer |-> TRUE, frame |-> last, last_frame |-> last]
    ELSE [infer |-> TRUE, frame |-> frame, last_frame |-> frame]

\* a None branch that warns in every cycle (the mutant)
warns_no_frame_every_cycle(n) == n >= 1

\* the None branch after no_frame_count += 1: a warning is printed when
\* no_frame_count == 1, or else when no_frame_count % 30 == 0
warns_no_frame(n) == n = 1 \/ n % 30 = 0

\* no_frame_count after the cycle
count_no_frame(frame, n) == IF frame.isNone THEN n + 1 ELSE 0


(***************************************************************************)
(* data_source_shm.main: what the write loop does with the return value of *)
(* write_frame_to_shm.                                                     *)
(***************************************************************************)
\* a write loop that stops at the first rejected frame
after_write_frame_break(ok, count) ==
    [pc |-> IF ok THEN "loop" ELSE "finally", frame_count |-> IF ok THEN count + 1 ELSE count]

\* frame_count += 1 on True, a warning on False, then sleep and the next
\* pass of the loop
after_write_frame(ok, count) ==
    [pc |-> "loop", frame_count |-> IF ok THEN count + 1 ELSE count]


(***************************************************************************)
(* Start-up and termination of the three producers: the resources each     *)
(* step acquires and the release calls each exit path makes.               *)
(***************************************************************************)
\* GPUCameraCapture.__init__ assigns PYCUDA_AVAILABLE (line 133) without a
\* global declaration, so the name is local to the whole function body
PYCUDA_AVAILABLE_is_local == TRUE

\* GPUCameraCapture.__init__(camera_index, width, height): whether it raises,
\* what the object holds then, and the gpu_ptr it publishes.  pycuda is the
\* module-level PYCUDA_AVAILABLE, allocOk the outcome of cuda.mem_alloc,
\* opens the outcome of opening the camera.
GPUCameraCapture_init(pycuda, allocOk, opens) ==
    IF PYCUDA_AVAILABLE_is_local
    THEN \* "if PYCUDA_AVAILABLE:" reads an unbound local: UnboundLocalError
         [raised |-> TRUE, held |-> {}, gpu_ptr |-> 0, fallback |-> FALSE]
    ELSE LET alloc == pycuda /\ allocOk
         IN  IF ~opens
             THEN [raised |-> TRUE,
                   held |-> IF alloc THEN {"device_buffer"} ELSE {},
                   gpu_ptr |-> 0, fallback |-> FALSE]
             ELSE [raised |-> FALSE,
                   held |-> {"capture"} \cup (IF alloc THEN {"device_buffer"} ELSE {}),
                   gpu_ptr |-> IF alloc THEN 4096 ELSE 0,
                   fallback |-> ~alloc]

\* interval = 1.0 / FPS raises ZeroDivisionError for FPS = 0
interval_raises(fps) == fps = 0

\* the resources the finally block of a producer makes a release call for
finally_releases(prog) ==
    IF prog = "sock" THEN {"capture", "client_socket", "listening_socket"}
    ELSE IF prog = "shm" THEN {"segment"}
    ELSE {"capture", "device_buffer", "segment"}


(***************************************************************************)
(* The frame sources of the producers: what follows a cap.read() that      *)
(* delivered no frame.                                                     *)
(***************************************************************************)
\* the position in the source after a failed read.  data_source_shm's
\* iter_frames rewinds a video (cap.set(cv2.CAP_PROP_POS_FRAMES, 0)), reads
\* a camera again and goes on to the next image of a folder;
\* data_source.main reads cap itself, and after a failed read it sleeps and
\* continues (its iter_frames, which rewinds when LOOP_VIDEO is set, is
\* never called)
after_failed_read(prog, source, pos, len) ==
    IF prog = "data_source_shm" /\ source = "video" THEN 0
    ELSE IF source = "images" THEN (pos + 1) % len
    ELSE pos

\* the position in the source after a read that delivered a frame
after_frame_read(source, pos, len) ==
    IF source = "video" THEN pos + 1
    ELSE IF source = "images" THEN (pos + 1) % len
    ELSE pos

(***************************************************************************)
(* Retry loops of the consumers.                                           *)
(***************************************************************************)
\* inference.py:115, inference_shm.py:187, inference_gpu.py:205
max_retries == 10

\* the exceptions inference.py:125 catches: ConnectionRefusedError,
\* socket.timeout and OSError, the base class of both
caught_for_retry(outcome) == outcome \in {"refused", "timeout", "oserror"}

\* inference.py:127 with <= for < (the mutant)
connect_retries_left_le(rc) == rc <= max_retries

\* inference.py:127, if retry_count < max_retries
connect_retries_left(rc) == rc < max_retries

\* inference_shm.py:200 with <= for < (the mutant)
attach_retries_left_le(rc) == rc <= max_retries

\* inference_shm.py:200 / inference_gpu.py:215, if retry_count < max_retries
attach_retries_left(rc) == rc < max_retries

(***************************************************************************)
(* State                                                                   *)
(***************************************************************************)
VARIABLES
    shm,      \* the bytes of the CPU segment
    op,       \* the call that completed last: "init", "write", "read"
    wkind,    \* argument of the latest write call: "none", "fit", "over"
    wres,     \* return value of the latest write call
    rframe,   \* result of the latest read (kept over rejected writes)
    rheld,    \* rframe is the result of a read made since the last fitting write
    lastFit,  \* argument of the latest write call whose shape is within the maxima
    lastOk,   \* argument of the latest write call that returned True
    nwrites   \* write calls made so far

shmVars == << shm, op, wkind, wres, rframe, rheld, lastFit, lastOk, nwrites >>

VARIABLES
    gshm,          \* the bytes of the GPU-variant segment
    devmem,        \* the device buffer behind the published gpu_ptr
    pycuda_avail,  \* PYCUDA_AVAILABLE of the consumer process
    torch_avail,   \* TORCH_AVAILABLE of the consumer process
    gop,           \* "init", or "read" once read_gpu_frame_from_shm has returned
    gres           \* its latest result (frame, shape, frame_id)

gpuVars == << gshm, devmem, pycuda_avail, torch_avail, gop, gres >>

VARIABLES
    s_pc,        \* server: "send_meta", "send_data", "closed"
    s_frame,     \* the frame send_frame is sending
    sent,        \* the frames passed to send_frame, in order
    emitted,     \* every byte the server has handed to sendall, in order
    rbuf,        \* bytes sent, not yet taken by recv
    r_pc,        \* client: "idle", "meta" (header loop), "data" (payload loop)
    meta_data,   \* receive_frame's header accumulator
    frame_data,  \* receive_frame's payload accumulator
    r_ret,       \* return value of the latest receive_frame call
    r_why,       \* how that call ended: "none", "frame", "badhdr", "timeout", "closed", "error"
    r_calls,     \* completed receive_frame calls
    r_bytewise,  \* every recv of the current call returned exactly one byte
    r_paid,      \* the payload loop of the current call has called recv
    r_fail       \* some call ended by timeout, closed connection or error

sockVars == << s_pc, s_frame, sent, emitted, rbuf, r_pc, meta_data, frame_data,
               r_ret, r_why, r_calls, r_bytewise, r_paid, r_fail >>

VARIABLES
    listening,    \* the server has bound and listens on HOST:PORT
    c_pc,         \* socket client main: "connect", "sleep", "loop", "exit"
    retry_count,  \* its retry_count
    c_attempts,   \* sock.connect calls made
    c_sleeps,     \* time.sleep(1) calls completed
    c_last,       \* outcome of the latest connect: "none", "ok", "refused",
                  \* "timeout", "oserror" (another OSError), "other"
    c_unreach,    \* every connect so far was refused or timed out
    c_sock,       \* its sock: "none" (None), "open", "closed"
    c_end         \* its main: "running", "returned", "raised" (an exception left main)

connVars == << listening, c_pc, retry_count, c_attempts, c_sleeps, c_last, c_unreach,
               c_sock, c_end >>

VARIABLES
    seg_exists,   \* per consumer: the named segment exists
    a_pc,         \* per consumer main: "attach", "sleep", "reading", "exit"
    a_retry,      \* its retry_count
    a_attempts,   \* SharedMemory(name=SHM_NAME, create=False) calls made
    a_sleeps,     \* time.sleep(1) calls completed
    a_last        \* outcome of the latest attach: "none", "ok", "notfound", "other"

attVars == << seg_exists, a_pc, a_retry, a_attempts, a_sleeps, a_last >>

VARIABLES
    cam_frame_id,     \* GPU producer: camera.frame_id
    cam_pycuda,       \* GPU producer: PYCUDA_AVAILABLE and gpu_buffer allocated
    gp_pc,            \* GPU producer main: 0 = at camera.read_to_gpu(),
                      \* k = the k-th store of write_gpu_frame_to_shm is next
    gp_args,          \* gpu_ptr, shape, frame_id of the write under way
    published,        \* frame_id of every write_gpu_frame_to_shm that returned True
    gp_cycles,        \* iterations of the producer loop started
    gc_buf,           \* GPU consumer: header bytes the read under way has loaded
    gc_polls,         \* read_gpu_frame_from_shm calls completed
    gc_ids,           \* frame_id of every call that returned a frame, in order
    gc_last_frame,    \* GPU consumer main: last_frame
    gc_last_frame_id, \* GPU consumer main: last_frame_id
    gc_inferred       \* frame_id of every freshly read frame given to model.predict

gfVars == << cam_frame_id, cam_pycuda, gp_pc, gp_args, published, gp_cycles,
             gc_buf, gc_polls, gc_ids, gc_last_frame, gc_last_frame_id, gc_inferred >>

VARIABLES
    cshm,        \* the segment a producer and a consumer use at the same time
    cown,        \* for each of its bytes, the number of the write that stored it
    pw_pc,       \* producer: 0 = between calls, k = the k-th store is next
    pw_frame,    \* the frame of the write under way
    pw_log,      \* the frames of the accepted writes started, in order
    pr_pc,       \* consumer: 0 = between calls, 1..3 = that header load is
                 \* next, 4 = the payload copy is under way
    pr_bytes,    \* header and payload bytes the read under way has loaded
    pr_own,      \* for each of them, the number of the write that stored it
    pr_overlap,  \* a write was under way at some point of the read under way (or the latest)
    pr_early,    \* that read was called before the first write had returned
    pr_ret,      \* the value the latest read returned
    pr_ret_own,  \* the writes the bytes behind that value came from
    pr_reads     \* reads completed

raceVars == << cshm, cown, pw_pc, pw_frame, pw_log, pr_pc, pr_bytes, pr_own,
               pr_overlap, pr_early, pr_ret, pr_ret_own, pr_reads >>

VARIABLES
    ns,           \* the segment SHM_NAME refers to, 0 when it refers to none
    segs,         \* every segment created: creator, size, who unlinked it
    l_pc,         \* per process, its position in main
    l_seg,        \* per process, the segment behind its handle shm (0: none)
    l_open,       \* per process, the handle is open
    l_fin,        \* per process, the calls of its finally block still to make
    l_old,        \* per producer, the segment behind old_shm (0: none)
    l_writes,     \* per producer, the segments it has written frames to
    l_recovered,  \* per producer, startup went through the FileExistsError branch
    l_exit_len    \* per producer, the number of segments created when it exited

lifeVars == << ns, segs, l_pc, l_seg, l_open, l_fin, l_old, l_writes, l_recovered,
               l_exit_len >>

VARIABLES
    d_pc,        \* data_source.main: "accept", "capture", "send1" (before
                 \* sendall(meta_data)), "send2" (before sendall(frame_bytes)),
                 \* "finally", "exited"
    d_frame,     \* the frame of the current cycle
    d_wire,      \* every byte handed to the client connection, in order
    d_calls,     \* the frames send_frame was called with, in order
    d_client,    \* client_socket: "none", "open", "closed"
    d_server,    \* server_socket: "none", "open", "closed"
    d_cycles,    \* passes through the loop body
    d_failed,    \* send_frame has returned False
    d_fail_len,  \* Len(d_wire) when it did
    d_fail_calls, \* Len(d_calls) when it did
    d_accepts,   \* server_socket.accept() calls that have returned
    d_peers      \* the connections (numbered by accept) sendall was called on

sendVars == << d_pc, d_frame, d_wire, d_calls, d_client, d_server, d_cycles,
               d_failed, d_fail_len, d_fail_calls, d_accepts, d_peers >>

VARIABLES
    lp_which,       \* the consumer that runs: "sock" (inference.py) or "shm"
                    \* (inference_shm.py)
    lp_pc,          \* its main loop: "read" (top of the loop), "quit"
    last_frame,     \* its last_frame
    no_frame_count, \* its no_frame_count
    lp_cycles,      \* loop cycles completed
    lp_read,        \* what the read of the latest cycle returned
    lp_inferred,    \* the latest cycle called model.predict
    lp_arg,         \* the frame it called it with
    lp_good,        \* the latest frame a read returned, None before the first
    lp_closed       \* a receive_frame call has returned None on a closed connection

loopVars == << lp_which, lp_pc, last_frame, no_frame_count, lp_cycles, lp_read,
               lp_inferred, lp_arg, lp_good, lp_closed >>

VARIABLES
    pd_pc,          \* data_source_shm.main: "loop" (top of the write loop), "finally"
    frame_count,    \* its frame_count
    pd_log,         \* the frames its loop passed to write_frame_to_shm, with the
                    \* return values, in order
    pd_before,      \* the segment before the latest call
    pd_interrupted  \* KeyboardInterrupt was raised

prodVars == << pd_pc, frame_count, pd_log, pd_before, pd_interrupted >>

VARIABLES
    k_prog,       \* the producer that runs: "sock" (data_source.py), "shm"
                  \* (data_source_shm.py), "gpu" (data_source_gpu.py)
    k_pc,         \* the step its main is at
    k_held,       \* resources acquired and not passed to a release call
    k_attempted,  \* resources passed to a release call
    k_error,      \* its main is ending because an exception was raised
    k_fps,        \* its FPS
    k_exists,     \* a segment exists under SHM_NAME
    k_cycles,     \* passes of its loop
    k_env,        \* what its environment will answer: pycuda importable,
                  \* cuda.mem_alloc succeeds, the camera opens
    k_init,       \* GPUCameraCapture(...): "none", "done", "raised"
    k_gpu_ptr     \* camera.gpu_ptr once the constructor has returned

fatalVars == << k_prog, k_pc, k_held, k_attempted, k_error, k_fps, k_exists,
                k_cycles, k_env, k_init, k_gpu_ptr >>

VARIABLES
    gw_before,  \* the GPU segment before the latest write_gpu_frame_to_shm call
    gw_args,    \* the arguments of that call
    gw_ret,     \* its return value
    gw_calls    \* calls made

gwVars == << gw_before, gw_args, gw_ret, gw_calls >>

VARIABLES
    received,  \* inference.main: the results of its receive_frame calls, in order
    o_clean    \* none of them ended by a timeout or by a rejected header

ordVars == << received, o_clean >>

VARIABLES
    v_prog,    \* the producer that runs: "data_source" or "data_source_shm"
    v_source,  \* its source: "video", "camera" or "images"
    v_len,     \* frames in the video file, images in the folder (0 for a camera)
    v_pos,     \* frames read since the file was opened or rewound; the index
               \* of the next image
    v_count,   \* its frame_count: frames published (sent, or written)
    v_skips,   \* cap.read() calls that delivered no frame (counted up to MaxSkips)
    v_at_end   \* the latest cap.read() found the end of the video

srcVars == << v_prog, v_source, v_len, v_pos, v_count, v_skips, v_at_end >>

VARIABLES
    wn_run,      \* consecutive cycles without a frame, up to the latest cycle
    wn_warned,   \* the latest cycle printed a warning
    wn_warnings  \* warnings printed so far

warnVars == << wn_run, wn_warned, wn_warnings >>

vars == << shmVars, gpuVars, sockVars, connVars, attVars, gfVars, raceVars, lifeVars, sendVars, loopVars, prodVars, fatalVars, gwVars, ordVars, srcVars, warnVars >>

\* the two shared-memory consumers: inference_shm.py and inference_gpu.py
Consumers == {"shm", "gpu"}

\* the GPU producer and consumer loops at rest
GfIdle ==
    /\ cam_frame_id = 0
    /\ cam_pycuda = FALSE
    /\ gp_pc = 0
    /\ gp_args = [gpu_ptr |-> 0, shape |-> << >>, frame_id |-> 0]
    /\ published = << >>
    /\ gp_cycles = 0
    /\ gc_buf = << >>
    /\ gc_polls = 0
    /\ gc_ids = << >>
    /\ gc_last_frame = None
    /\ gc_last_frame_id = 0
    /\ gc_inferred = << >>

\* the concurrently used segment at rest
RaceIdle ==
    /\ cshm = FreshSegment
    /\ cown = [n \in 1..SHM_TOTAL_SIZE |-> 0]
    /\ pw_pc = 0
    /\ pw_frame = None
    /\ pw_log = << >>
    /\ pr_pc = 0
    /\ pr_bytes = << >>
    /\ pr_own = << >>
    /\ pr_overlap = FALSE
    /\ pr_early = FALSE
    /\ pr_ret = None
    /\ pr_ret_own = << >>
    /\ pr_reads = 0

\* two runs of data_source_shm, one of data_source_gpu
Prods == {"p1", "p2"}
GpuProd == "pg"
Procs == Prods \cup {GpuProd} \cup Consumers

\* the program each process runs
Program(proc) ==
    IF proc \in Prods THEN "data_source_shm"
    ELSE IF proc = GpuProd THEN "data_source_gpu"
    ELSE IF proc = "shm" THEN "inference_shm"
    ELSE "inference_gpu"

\* no process started, no segment under the name
LifeIdle ==
    /\ ns = 0
    /\ segs = << >>
    /\ l_pc = [p \in Procs |-> "off"]
    /\ l_seg = [p \in Procs |-> 0]
    /\ l_open = [p \in Procs |-> FALSE]
    /\ l_fin = [p \in Procs |-> << >>]
    /\ l_old = [p \in Prods |-> 0]
    /\ l_writes = [p \in Prods |-> {}]
    /\ l_recovered = [p \in Prods |-> FALSE]
    /\ l_exit_len = [p \in Prods |-> 0]

\* the socket client before its connect loop
ConnIdle ==
    /\ listening = FALSE
    /\ c_pc = "connect"
    /\ retry_count = 0
    /\ c_attempts = 0
    /\ c_sleeps = 0
    /\ c_last = "none"
    /\ c_unreach = TRUE
    /\ c_sock = "none"
    /\ c_end = "running"

\* the shared-memory consumers before their attach loops
AttIdle ==
    /\ seg_exists = [p \in Consumers |-> FALSE]
    /\ a_pc = [p \in Consumers |-> "attach"]
    /\ a_retry = [p \in Consumers |-> 0]
    /\ a_attempts = [p \in Consumers |-> 0]
    /\ a_sleeps = [p \in Consumers |-> 0]
    /\ a_last = [p \in Consumers |-> "none"]

\* the socket channel at rest (client connected, nothing sent)
SockIdle ==
    /\ s_pc = "send_meta"
    /\ s_frame = None
    /\ sent = << >>
    /\ emitted = << >>
    /\ rbuf = << >>
    /\ r_pc = "idle"
    /\ meta_data = << >>
    /\ frame_data = << >>
    /\ r_ret = None
    /\ r_why = "none"
    /\ r_calls = 0
    /\ r_bytewise = TRUE
    /\ r_paid = FALSE
    /\ r_fail = FALSE

\* the frame source of a producer, before its first read
SrcIdle ==
    /\ v_prog = "data_source"
    /\ v_source = "video"
    /\ v_len = 1
    /\ v_pos = 0
    /\ v_count = 0
    /\ v_skips = 0
    /\ v_at_end = FALSE

\* no cycle of the consumer loop has run
WarnIdle ==
    /\ wn_run = 0
    /\ wn_warned = FALSE
    /\ wn_warnings = 0

\* the socket client before its first receive_frame call
OrdIdle ==
    /\ received = << >>
    /\ o_clean = TRUE

\* no write_gpu_frame_to_shm call made
GwIdle ==
    /\ gw_before = << >>
    /\ gw_args = [gpu_ptr |-> 0, shape |-> << >>, frame_id |-> 0]
    /\ gw_ret = FALSE
    /\ gw_calls = 0

\* no producer started
FatalIdle ==
    /\ k_prog = "sock"
    /\ k_pc = "start"
    /\ k_held = {}
    /\ k_attempted = {}
    /\ k_error = FALSE
    /\ k_fps = 10
    /\ k_exists = FALSE
    /\ k_cycles = 0
    /\ k_env = [pycuda |-> FALSE, allocOk |-> FALSE, opens |-> FALSE]
    /\ k_init = "none"
    /\ k_gpu_ptr = 0

\* the shared-memory producer before the first pass of its write loop
ProdIdle ==
    /\ pd_pc = "loop"
    /\ frame_count = 0
    /\ pd_log = << >>
    /\ pd_before = FreshSegment
    /\ pd_interrupted = FALSE

\* the consumer loops at rest
LoopIdle ==
    /\ lp_which = "sock"
    /\ lp_pc = "read"
    /\ last_frame = None
    /\ no_frame_count = 0
    /\ lp_cycles = 0
    /\ lp_read = None
    /\ lp_inferred = FALSE
    /\ lp_arg = None
    /\ lp_good = None
    /\ lp_closed = FALSE

\* the socket server at rest: listening, no client accepted
SendIdle ==
    /\ d_pc = "accept"
    /\ d_frame = None
    /\ d_wire = << >>
    /\ d_calls = << >>
    /\ d_client = "none"
    /\ d_server = "open"
    /\ d_cycles = 0
    /\ d_failed = FALSE
    /\ d_fail_len = 0
    /\ d_fail_calls = 0
    /\ d_accepts = 0
    /\ d_peers = {}

\* the GPU channel at rest, for the specifications that do not use it
GpuIdle ==
    /\ gshm = [n \in 1..GPU_SHM_TOTAL_SIZE |-> 0]
    /\ devmem = [n \in 1..SHM_DATA_SIZE |-> 0]
    /\ pycuda_avail = FALSE
    /\ torch_avail = FALSE
    /\ gop = "init"
    /\ gres = NoneTriple

\* the CPU channel at rest
ShmIdle ==
    /\ shm = FreshSegment
    /\ op = "init"
    /\ wkind = "none"
    /\ wres = FALSE
    /\ rframe = None
    /\ rheld = FALSE
    /\ lastFit = None
    /\ lastOk = None
    /\ nwrites = 0

(***************************************************************************)
(* SpecShm: one producer and one consumer on a fresh segment, calls not    *)
(* overlapping.                                                            *)
(***************************************************************************)
InitShm == ShmIdle /\ GpuIdle /\ SockIdle /\ ConnIdle /\ AttIdle /\ GfIdle /\ RaceIdle /\ LifeIdle /\ SendIdle /\ LoopIdle /\ ProdIdle /\ FatalIdle /\ GwIdle /\ OrdIdle /\ SrcIdle /\ WarnIdle

\* data_source_shm.main: write_frame_to_shm(shm, frame) with the next frame
WriteFrame ==
    /\ nwrites < MaxWrites
    /\ nwrites' = nwrites + 1
    /\ \E frame \in ShmFrames :
        LET r == write_frame_to_shm(shm, frame)
        IN  /\ shm' = r.seg
            /\ wres' = r.ret
            /\ wkind' = IF Exceeds(frame) THEN "over" ELSE "fit"
            /\ lastFit' = IF Exceeds(frame) THEN lastFit ELSE frame
            /\ lastOk' = IF r.ret THEN frame ELSE lastOk
            /\ rframe' = IF Exceeds(frame) THEN rframe ELSE None
            /\ rheld' = IF Exceeds(frame) THEN rheld ELSE FALSE
            /\ op' = "write"
    /\ UNCHANGED << gpuVars, sockVars, connVars, attVars, gfVars, raceVars, lifeVars, sendVars, loopVars, prodVars, fatalVars, gwVars, ordVars, srcVars, warnVars >>

\* inference_shm.main: frame = read_frame_from_shm(shm)
ReadFrame ==
    /\ rframe' = read_frame_from_shm(shm)
    /\ rheld' = TRUE
    /\ op' = "read"
    /\ UNCHANGED << shm, wkind, wres, lastFit, lastOk, nwrites >>
    /\ UNCHANGED << gpuVars, sockVars, connVars, attVars, gfVars, raceVars, lifeVars, sendVars, loopVars, prodVars, fatalVars, gwVars, ordVars, srcVars, warnVars >>

NextShm == WriteFrame \/ ReadFrame

SpecShm == InitShm /\ [][NextShm]_vars

\* C1: a read that follows the write of a frame whose shape is within the
\* maxima, with no write in between, returns that frame: same shape, same
\* bytes in the same order.
C1_RoundTrip ==
    (op = "read" /\ wkind = "fit") => rframe = lastFit

C1_Witness ==
    /\ op = "read" /\ wkind = "fit" /\ rframe = lastFit
    /\ rframe.h = MAX_HEIGHT /\ rframe.w = MAX_WIDTH /\ rframe.c = MAX_CHANNELS
    /\ \E t \in DOMAIN rframe.px : rframe.px[t] # rframe.px[<< 0, 0, 0 >>]

\* C2: a write whose frame exceeds a maximum returns False and changes no
\* byte of the segment, and a read after it returns what the read before it
\* returned.
C2_WriteRejection ==
    [][ /\ (op' = "write" /\ wkind' = "over") => (wres' = FALSE /\ shm' = shm)
        /\ (op' = "read" /\ op = "write" /\ wkind = "over" /\ rheld)
              => rframe' = rframe ]_vars

C2_Witness ==
    /\ op = "read" /\ wkind = "over" /\ wres = FALSE
    /\ ~lastOk.isNone /\ rframe = lastOk

\* C3: with no write in progress, a read returns the frame of the last
\* accepted write, whatever was written (or rejected) before or after it.
C3_LastWriteWins ==
    (op = "read" /\ ~lastOk.isNone) => rframe = lastOk

\* a small all-0 frame read back while the tail of the segment still holds
\* the 255s of an earlier, larger frame
C3_Witness ==
    /\ op = "read" /\ rframe = lastOk
    /\ rframe.h = 1 /\ rframe.w = 1 /\ rframe.c = MAX_CHANNELS
    /\ \A t \in DOMAIN rframe.px : rframe.px[t] = 0
    /\ shm[SHM_TOTAL_SIZE] = 255

\* C31: an accepted write of a w x h x c frame stores the header and the
\* frame's bytes in [0, 12 + w*h*c), leaves every byte from 12 + w*h*c to
\* the end of the segment as it was, and 12 + w*h*c is at most the segment
\* size 12 + MAX_WIDTH*MAX_HEIGHT*MAX_CHANNELS.
C31_WriteFootprint ==
    [][(op' = "write" /\ nwrites' = nwrites + 1 /\ wres') =>
          LET f == lastOk'
              data_end == SHM_META_SIZE + Mul(Mul(f.w, f.h), f.c)
          IN  /\ data_end <= SHM_META_SIZE + MAX_WIDTH * MAX_HEIGHT * MAX_CHANNELS
              /\ Len(shm') = Len(shm)
              /\ Len(shm) = SHM_META_SIZE + MAX_WIDTH * MAX_HEIGHT * MAX_CHANNELS
              /\ Slice(shm', 0, SHM_META_SIZE) = pack_I(f.w) \o pack_I(f.h) \o pack_I(f.c)
              /\ \A t \in Index(f.h, f.w, f.c) :
                    shm'[SHM_META_SIZE + t[1] * f.w * f.c + t[2] * f.c + t[3] + 1] = f.px[t]
              /\ \A n \in (data_end + 1)..Len(shm) : shm'[n] = shm[n]
      ]_vars

\* a 1 x 1 frame of zeros written over a full-size frame whose last byte,
\* 255, is still in the segment
C31_Witness ==
    /\ op = "write" /\ wres /\ nwrites = 2
    /\ lastOk.h = 1 /\ lastOk.w = 1 /\ lastOk.c = MAX_CHANNELS
    /\ \A t \in DOMAIN lastOk.px : lastOk.px[t] = 0
    /\ shm[SHM_META_SIZE + 1] = 0
    /\ shm[SHM_TOTAL_SIZE] = 255

(***************************************************************************)
(* SpecHdr: a consumer attached to a segment whose content it did not      *)
(* choose.  attach opens whatever exists under the name (a segment left    *)
(* by an earlier run, or by a producer configured with other maxima), so   *)
(* the header is any triple with dimensions in 0..max+1.                   *)
(***************************************************************************)
HdrShapes == (0..(MAX_HEIGHT + 1)) \X (0..(MAX_WIDTH + 1)) \X (0..(MAX_CHANNELS + 1))

\* payload areas: all 0, or 255 at the even offsets
PayloadAreas ==
    {[n \in 1..SHM_DATA_SIZE |-> v] : v \in {0}}
    \cup {[n \in 1..SHM_DATA_SIZE |-> IF n % 2 = 1 THEN 255 ELSE 0]}

\* a published device pointer
DevPtr == 4096

InitHdr ==
    /\ \E s \in HdrShapes, area \in PayloadAreas, ptr \in {0, DevPtr}, id \in 0..1 :
          /\ shm = pack_I(s[2]) \o pack_I(s[1]) \o pack_I(s[3]) \o area
          /\ gshm = pack_I(s[2]) \o pack_I(s[1]) \o pack_I(s[3])
                      \o pack_Q(ptr) \o pack_Q(id) \o area
    /\ devmem = [n \in 1..SHM_DATA_SIZE |-> 255]
    /\ pycuda_avail \in BOOLEAN
    /\ torch_avail \in BOOLEAN
    /\ op = "init" /\ wkind = "none" /\ wres = FALSE /\ rframe = None
    /\ rheld = FALSE /\ lastFit = None /\ lastOk = None /\ nwrites = 0
    /\ gop = "init" /\ gres = NoneTriple
    /\ SockIdle /\ ConnIdle /\ AttIdle /\ GfIdle /\ RaceIdle /\ LifeIdle /\ SendIdle /\ LoopIdle /\ ProdIdle /\ FatalIdle /\ GwIdle /\ OrdIdle /\ SrcIdle /\ WarnIdle

\* inference_gpu.main: read_gpu_frame_from_shm(shm, ...)
ReadGpuFrame ==
    /\ \E devOk \in BOOLEAN, cudaOk \in BOOLEAN :
          gres' = read_gpu_frame_from_shm(gshm, pycuda_avail, torch_avail,
                                          devmem, devOk, cudaOk)
    /\ gop' = "read"
    /\ UNCHANGED << gshm, devmem, pycuda_avail, torch_avail >>
    /\ UNCHANGED << shmVars, sockVars, connVars, attVars, gfVars, raceVars, lifeVars, sendVars, loopVars, prodVars, fatalVars, gwVars, ordVars, srcVars, warnVars >>

NextHdr == ReadFrame \/ ReadGpuFrame

SpecHdr == InitHdr /\ [][NextHdr]_vars

\* the header fields as stored in the first 12 bytes of a segment
HdrW(seg) == unpack_I(Slice(seg, 0, 4))
HdrH(seg) == unpack_I(Slice(seg, 4, 8))
HdrC(seg) == unpack_I(Slice(seg, 8, 12))

HdrOutOfRange(seg) ==
    \/ HdrW(seg) = 0 \/ HdrH(seg) = 0 \/ HdrC(seg) = 0
    \/ HdrW(seg) > MAX_WIDTH \/ HdrH(seg) > MAX_HEIGHT \/ HdrC(seg) > MAX_CHANNELS

\* C7: read_frame_from_shm and read_gpu_frame_from_shm return no frame
\* whenever a header dimension is 0 or above its maximum (width, height or
\* channels).
C7_InvalidHeaderRejected ==
    /\ (op = "read" /\ HdrOutOfRange(shm)) => rframe.isNone
    /\ (gop = "read" /\ HdrOutOfRange(gshm)) => gres.isNone

\* C30: whatever the 12 header bytes hold, a frame returned by
\* read_frame_from_shm has the shape of the header and exactly w*h*c
\* bytes, each the byte of the segment at its offset in
\* [12, 12 + MAX_WIDTH*MAX_HEIGHT*MAX_CHANNELS); every other read ends
\* with None (a failing reshape is caught).
C30_ReadInsideSegment ==
    (op = "read" /\ ~rframe.isNone) =>
        LET w == HdrW(shm)  h == HdrH(shm)  c == HdrC(shm)
        IN  /\ rframe.h = h /\ rframe.w = w /\ rframe.c = c
            /\ DOMAIN rframe.px = Index(h, w, c)
            /\ Cardinality(DOMAIN rframe.px) = Mul(Mul(w, h), c)
            /\ SHM_META_SIZE + Mul(Mul(w, h), c)
                   <= SHM_META_SIZE + MAX_WIDTH * MAX_HEIGHT * MAX_CHANNELS
            /\ Len(shm) = SHM_META_SIZE + MAX_WIDTH * MAX_HEIGHT * MAX_CHANNELS
            /\ \A t \in DOMAIN rframe.px :
                  rframe.px[t] = shm[SHM_META_SIZE + t[1] * w * c + t[2] * c + t[3] + 1]

\* a frame with more channels than MAX_CHANNELS is returned, its last
\* byte the last byte of the segment
C30_Witness ==
    /\ op = "read" /\ ~rframe.isNone
    /\ rframe.c = MAX_CHANNELS + 1
    /\ Cardinality(DOMAIN rframe.px) = SHM_DATA_SIZE
    /\ \E t \in DOMAIN rframe.px : rframe.px[t] = 255
    /\ \E t \in DOMAIN rframe.px : rframe.px[t] = 0

\* a header within the width and height maxima whose w*h*c is beyond the
\* payload area: the reshape of the clipped slice fails and None is returned
C30_WitnessClipped ==
    /\ op = "read" /\ rframe.isNone
    /\ HdrW(shm) \in 1..MAX_WIDTH /\ HdrH(shm) \in 1..MAX_HEIGHT /\ HdrC(shm) > 0
    /\ Mul(Mul(HdrW(shm), HdrH(shm)), HdrC(shm)) > SHM_DATA_SIZE

(***************************************************************************)
(* SpecSock: the server sending frames to its one client over a byte       *)
(* stream; a recv returns any number of the bytes available, from one byte *)
(* up to the number asked for.                                             *)
(***************************************************************************)
\* frames sent in one run of the server
MaxSent == 2
\* receive_frame calls made in one run of the client
MaxCalls == 3

\* the frame whose bytes in row-major order are 1, 2, ..., h*w*c
RampFrame(h, w, c) ==
    Frame(h, w, c, [t \in Index(h, w, c) |-> t[1] * w * c + t[2] * c + t[3] + 1])

ZeroFrame(h, w, c) == Frame(h, w, c, [t \in Index(h, w, c) |-> 0])

\* frames of the video source
SockFrames == {RampFrame(2, 3, 1), ZeroFrame(1, 2, 2)}

InitSock == ShmIdle /\ GpuIdle /\ SockIdle /\ ConnIdle /\ AttIdle /\ GfIdle /\ RaceIdle /\ LifeIdle /\ SendIdle /\ LoopIdle /\ ProdIdle /\ FatalIdle /\ GwIdle /\ OrdIdle /\ SrcIdle /\ WarnIdle

\* send_frame with a frame out of frames, up to sock.sendall(meta_data)
SendMetaOf(frames) ==
    /\ s_pc = "send_meta"
    /\ Len(sent) < MaxSent
    /\ \E frame \in frames :
          LET meta == pack_III(frame.w, frame.h, frame.c)
          IN  /\ s_frame' = frame
              /\ sent' = Append(sent, frame)
              /\ emitted' = emitted \o meta
              /\ rbuf' = rbuf \o meta
    /\ s_pc' = "send_data"
    /\ UNCHANGED << r_pc, meta_data, frame_data, r_ret, r_why, r_calls,
                    r_bytewise, r_paid, r_fail >>
    /\ UNCHANGED << shmVars, gpuVars, connVars, attVars, gfVars, raceVars, lifeVars, sendVars, loopVars, prodVars, fatalVars, gwVars, ordVars, srcVars, warnVars >>

\* send_frame with the frames of the video source
SendMeta == SendMetaOf(SockFrames)

\* send_frame, sock.sendall(frame.tobytes()) and return True
SendData ==
    /\ s_pc = "send_data"
    /\ emitted' = emitted \o flatten(s_frame)
    /\ rbuf' = rbuf \o flatten(s_frame)
    /\ s_frame' = None
    /\ s_pc' = "send_meta"
    /\ UNCHANGED << sent, r_pc, meta_data, frame_data, r_ret, r_why, r_calls,
                    r_bytewise, r_paid, r_fail >>
    /\ UNCHANGED << shmVars, gpuVars, connVars, attVars, gfVars, raceVars, lifeVars, sendVars, loopVars, prodVars, fatalVars, gwVars, ordVars, srcVars, warnVars >>

\* data_source.main leaves its loop (send failure, interrupt, error) and
\* closes the client socket
ServerClose ==
    /\ s_pc # "closed"
    /\ s_pc' = "closed"
    /\ s_frame' = None
    /\ UNCHANGED << sent, emitted, rbuf, r_pc, meta_data, frame_data, r_ret,
                    r_why, r_calls, r_bytewise, r_paid, r_fail >>
    /\ UNCHANGED << shmVars, gpuVars, connVars, attVars, gfVars, raceVars, lifeVars, sendVars, loopVars, prodVars, fatalVars, gwVars, ordVars, srcVars, warnVars >>

\* inference.main calls receive_frame(sock)
RecvCall ==
    /\ r_pc = "idle"
    /\ r_calls < MaxCalls
    /\ r_pc' = "meta"
    /\ meta_data' = << >>
    /\ frame_data' = << >>
    /\ r_bytewise' = TRUE
    /\ r_paid' = FALSE
    /\ UNCHANGED << s_pc, s_frame, sent, emitted, rbuf, r_ret, r_why, r_calls,
                    r_fail >>
    /\ UNCHANGED << shmVars, gpuVars, connVars, attVars, gfVars, raceVars, lifeVars, sendVars, loopVars, prodVars, fatalVars, gwVars, ordVars, srcVars, warnVars >>

\* receive_frame returns (value, how)
RecvReturn(value, how) ==
    /\ r_pc' = "idle"
    /\ r_ret' = value
    /\ r_why' = how
    /\ r_calls' = r_calls + 1
    /\ r_fail' = (r_fail \/ how \in {"timeout", "closed", "error"})

\* one sock.recv(12 - len(meta_data)) that returns k bytes; with the 12th
\* byte the header is unpacked and checked
RecvMeta ==
    /\ r_pc = "meta"
    /\ \E k \in 1..Min(12 - Len(meta_data), Len(rbuf)) :
          LET md == accumulate(meta_data, Take(rbuf, k))
              hd == unpack_III(md)
          IN  /\ rbuf' = Drop(rbuf, k)
              /\ meta_data' = md
              /\ r_bytewise' = (r_bytewise /\ k = 1)
              /\ IF Len(md) < 12
                 THEN UNCHANGED << r_pc, r_ret, r_why, r_calls, r_fail >>
                 ELSE IF header_invalid(hd.w, hd.h, hd.c)
                      THEN RecvReturn(None, "badhdr")
                      ELSE /\ r_pc' = "data"
                           /\ UNCHANGED << r_ret, r_why, r_calls, r_fail >>
    /\ UNCHANGED << s_pc, s_frame, sent, emitted, frame_data, r_paid >>
    /\ UNCHANGED << shmVars, gpuVars, connVars, attVars, gfVars, raceVars, lifeVars, sendVars, loopVars, prodVars, fatalVars, gwVars, ordVars, srcVars, warnVars >>

\* one sock.recv(min(4096, data_size - len(frame_data))) that returns k
\* bytes; with the last byte the frame is built and returned
RecvData ==
    /\ r_pc = "data"
    /\ LET hd == unpack_III(meta_data)
           data_size == Mul(Mul(hd.w, hd.h), hd.c)
       IN  \E k \in 1..Min(Min(RECV_CHUNK, data_size - Len(frame_data)), Len(rbuf)) :
              LET fd == accumulate(frame_data, Take(rbuf, k))
              IN  /\ rbuf' = Drop(rbuf, k)
                  /\ frame_data' = fd
                  /\ r_bytewise' = (r_bytewise /\ k = 1)
                  /\ r_paid' = TRUE
                  /\ IF Len(fd) < data_size
                     THEN UNCHANGED << r_pc, r_ret, r_why, r_calls, r_fail >>
                     ELSE RecvReturn(reshape(fd, hd.h, hd.w, hd.c), "frame")
    /\ UNCHANGED << s_pc, s_frame, sent, emitted, meta_data >>
    /\ UNCHANGED << shmVars, gpuVars, connVars, attVars, gfVars, raceVars, lifeVars, sendVars, loopVars, prodVars, fatalVars, gwVars, ordVars, srcVars, warnVars >>

\* a sock.recv that returns no bytes, or raises: b"" once the peer has closed
\* and everything sent was read, socket.timeout while nothing arrives, any
\* other exception once the peer is gone
RecvNothing ==
    /\ r_pc \in {"meta", "data"}
    /\ \E how \in {"timeout", "closed", "error"} :
          /\ how = "closed" => (s_pc = "closed" /\ rbuf = << >>)
          /\ how = "timeout" => (s_pc # "closed" /\ rbuf = << >>)
          /\ how = "error" => s_pc = "closed"
          /\ RecvReturn(None, how)
    /\ r_paid' = (r_paid \/ r_pc = "data")
    /\ UNCHANGED << s_pc, s_frame, sent, emitted, rbuf, meta_data, frame_data,
                    r_bytewise >>
    /\ UNCHANGED << shmVars, gpuVars, connVars, attVars, gfVars, raceVars, lifeVars, sendVars, loopVars, prodVars, fatalVars, gwVars, ordVars, srcVars, warnVars >>

NextSock ==
    \/ SendMeta \/ SendData \/ ServerClose
    \/ RecvCall \/ RecvMeta \/ RecvData \/ RecvNothing

SpecSock == InitSock /\ [][NextSock]_vars

\* number of bytes the first i frames take on the wire
RECURSIVE WireBytes(_)
WireBytes(i) ==
    IF i = 0 THEN 0
    ELSE WireBytes(i - 1) + 12 + sent[i].w * sent[i].h * sent[i].c

\* C4: on a connection with no timeout, close or error so far, each
\* completed receive_frame call returns the frame of the matching send_frame
\* call, however many bytes each recv returned; while a call is collecting,
\* what it has accumulated is the bytes of that frame received so far.
C4_PartialReads ==
    /\ (r_pc = "idle" /\ r_calls > 0 /\ ~r_fail)
          => (r_calls <= Len(sent) /\ r_ret = sent[r_calls])
    /\ (r_pc \in {"meta", "data"} /\ ~r_fail)
          => /\ r_calls <= Len(sent)
             /\ meta_data \o frame_data
                   = Slice(emitted, WireBytes(r_calls),
                           WireBytes(r_calls) + Len(meta_data) + Len(frame_data))

\* the 2x3x1 frame received one byte per recv
C4_Witness ==
    /\ r_pc = "idle" /\ r_calls > 0 /\ ~r_fail /\ r_bytewise
    /\ r_ret = RampFrame(2, 3, 1)
    /\ r_ret = sent[r_calls]

LittleEndian(b, o) == b[o + 1] + 256 * b[o + 2] + 65536 * b[o + 3] + 16777216 * b[o + 4]

\* C5: each frame is emitted as 12 header bytes, width, height, channels in
\* that order, then its width*height*channels bytes in row-major order and
\* nothing else; receive_frame turns a header (w, h, c) and the payload
\* bytes into a frame of shape (h, w, c) holding the bytes in received order.
C5_WireFormat ==
    /\ \A i \in 1..Len(sent) :
          LET o == WireBytes(i - 1)
              f == sent[i]
          IN  /\ Len(emitted) >= o + 12
              /\ LittleEndian(emitted, o) = f.w
              /\ LittleEndian(emitted, o + 4) = f.h
              /\ LittleEndian(emitted, o + 8) = f.c
              /\ (i < Len(sent) \/ s_pc = "send_meta") =>
                    /\ Len(emitted) >= WireBytes(i)
                    /\ \A t \in Index(f.h, f.w, f.c) :
                          emitted[o + 12 + t[1] * f.w * f.c + t[2] * f.c + t[3] + 1]
                             = f.px[t]
    /\ s_pc = "send_meta" => Len(emitted) = WireBytes(Len(sent))
    /\ s_pc = "send_data" => Len(emitted) = WireBytes(Len(sent) - 1) + 12
    /\ (r_pc = "idle" /\ r_why = "frame") =>
          LET w == LittleEndian(meta_data, 0)
              h == LittleEndian(meta_data, 4)
              c == LittleEndian(meta_data, 8)
          IN  /\ r_ret.h = h /\ r_ret.w = w /\ r_ret.c = c
              /\ Len(frame_data) = w * h * c
              /\ DOMAIN r_ret.px = Index(h, w, c)
              /\ \A t \in Index(h, w, c) :
                    r_ret.px[t] = frame_data[t[1] * w * c + t[2] * c + t[3] + 1]

\* header (3, 2, 1) with payload 1..6 received as a frame of shape (2, 3, 1)
C5_Witness ==
    /\ r_pc = "idle" /\ r_why = "frame"
    /\ meta_data = << 3, 0, 0, 0, 2, 0, 0, 0, 1, 0, 0, 0 >>
    /\ frame_data = << 1, 2, 3, 4, 5, 6 >>
    /\ r_ret.h = 2 /\ r_ret.w = 3 /\ r_ret.c = 1
    /\ r_ret.px[<< 1, 0, 0 >>] = 4
    /\ emitted = meta_data \o frame_data

\* the 12 header bytes decode to a zero dimension or to a width or height
\* above 10000
BadHeader(md) ==
    \/ LittleEndian(md, 0) = 0 \/ LittleEndian(md, 4) = 0 \/ LittleEndian(md, 8) = 0
    \/ LittleEndian(md, 0) > 10000 \/ LittleEndian(md, 4) > 10000

\* C6: a receive_frame call whose 12 header bytes decode to a zero
\* dimension, or to a width or height above 10000, returns None without a
\* recv for payload bytes.
C6_InvalidHeader ==
    (r_pc = "idle" /\ r_calls > 0 /\ Len(meta_data) = 12 /\ BadHeader(meta_data))
        => (r_ret.isNone /\ r_why = "badhdr" /\ ~r_paid)

\* a header with a zero dimension, met after an earlier call timed out
C6_Witness ==
    /\ r_pc = "idle" /\ r_calls > 0 /\ Len(meta_data) = 12
    /\ \/ LittleEndian(meta_data, 0) = 0
       \/ LittleEndian(meta_data, 4) = 0
       \/ LittleEndian(meta_data, 8) = 0
    /\ r_ret.isNone /\ ~r_paid

\* a header with a width above 10000 is met as well
C6_WitnessTooWide ==
    /\ r_pc = "idle" /\ r_calls > 0 /\ Len(meta_data) = 12
    /\ LittleEndian(meta_data, 0) > 10000
    /\ r_ret.isNone /\ ~r_paid


\* inference.py:207-212, the finally block of main: sock.close() when sock
\* is not None, then the closing print, which reads frame_count and
\* saved_count; these are bound at lines 147-148, after the connect phase,
\* and reading them unbound raises UnboundLocalError
finally_of_main(sock, counters_bound) ==
    [sock |-> IF sock = "none" THEN "none" ELSE "closed",
     end |-> IF counters_bound THEN "returned" ELSE "raised"]

(***************************************************************************)
(* SpecConn: the connect phase of the socket client, inference.main, with  *)
(* a server that starts and stops listening at any time.                   *)
(***************************************************************************)
InitConn == ShmIdle /\ GpuIdle /\ SockIdle /\ ConnIdle /\ AttIdle /\ GfIdle /\ RaceIdle /\ LifeIdle /\ SendIdle /\ LoopIdle /\ ProdIdle /\ FatalIdle /\ GwIdle /\ OrdIdle /\ SrcIdle /\ WarnIdle

\* data_source.main binds and listens
ServerListen ==
    /\ ~listening
    /\ listening' = TRUE
    /\ UNCHANGED << c_pc, retry_count, c_attempts, c_sleeps, c_last, c_unreach, c_sock, c_end >>
    /\ UNCHANGED << shmVars, gpuVars, sockVars, attVars, gfVars, raceVars, lifeVars, sendVars, loopVars, prodVars, fatalVars, gwVars, ordVars, srcVars, warnVars >>

\* data_source.main closes its listening socket
ServerStop ==
    /\ listening
    /\ listening' = FALSE
    /\ UNCHANGED << c_pc, retry_count, c_attempts, c_sleeps, c_last, c_unreach, c_sock, c_end >>
    /\ UNCHANGED << shmVars, gpuVars, sockVars, attVars, gfVars, raceVars, lifeVars, sendVars, loopVars, prodVars, fatalVars, gwVars, ordVars, srcVars, warnVars >>

\* outcomes sock.connect can have
ConnectOutcomes ==
    IF listening THEN {"ok", "timeout", "oserror", "other"}
    ELSE {"refused", "timeout", "oserror", "other"}

\* one evaluation of the while condition at inference.py:118 and, when it
\* holds, one pass of the body: socket(), settimeout(5), connect() and the
\* except clauses; when it fails control falls to sock.settimeout(10) and
\* the receive loop
ConnectAttempt ==
    /\ c_pc = "connect"
    /\ IF retry_count < max_retries
       THEN \E outcome \in ConnectOutcomes :
              /\ c_last' = outcome
              /\ c_sock' = "open"
              /\ c_unreach' = (c_unreach /\ outcome \in {"refused", "timeout"})
              /\ c_attempts' = c_attempts + 1
              /\ IF outcome = "ok"
                 THEN c_pc' = "loop" /\ retry_count' = retry_count
                 ELSE IF caught_for_retry(outcome)
                      THEN /\ retry_count' = retry_count + 1
                           /\ c_pc' = IF connect_retries_left(retry_count + 1)
                                      THEN "sleep" ELSE "exit"
                      ELSE c_pc' = "exit" /\ retry_count' = retry_count
       ELSE /\ c_pc' = "loop"
            /\ UNCHANGED << retry_count, c_attempts, c_last, c_unreach, c_sock >>
    /\ UNCHANGED << listening, c_sleeps, c_end >>
    /\ UNCHANGED << shmVars, gpuVars, sockVars, attVars, gfVars, raceVars, lifeVars, sendVars, loopVars, prodVars, fatalVars, gwVars, ordVars, srcVars, warnVars >>

\* time.sleep(1) returns
ConnectSleep ==
    /\ c_pc = "sleep"
    /\ c_sleeps' = c_sleeps + 1
    /\ c_pc' = "connect"
    /\ UNCHANGED << listening, retry_count, c_attempts, c_last, c_unreach, c_sock, c_end >>
    /\ UNCHANGED << shmVars, gpuVars, sockVars, attVars, gfVars, raceVars, lifeVars, sendVars, loopVars, prodVars, fatalVars, gwVars, ordVars, srcVars, warnVars >>

\* YOLO(MODEL_PATH) raises at the start of main; except Exception prints
\* the error
ModelLoadFails ==
    /\ c_pc = "connect"
    /\ c_attempts = 0
    /\ c_pc' = "failed"
    /\ UNCHANGED << listening, retry_count, c_attempts, c_sleeps, c_last, c_unreach,
                    c_sock, c_end >>
    /\ UNCHANGED << shmVars, gpuVars, sockVars, attVars, gfVars, raceVars, lifeVars, sendVars, loopVars, prodVars, fatalVars, gwVars, ordVars, srcVars, warnVars >>

\* the finally block of main, entered from a return of the connect phase,
\* from the except clause after a model load error, or from the receive
\* loop on Ctrl+C
ClientFinally ==
    /\ c_pc \in {"exit", "failed", "loop"}
    /\ c_end = "running"
    /\ LET r == finally_of_main(c_sock, c_pc = "loop")
       IN  c_sock' = r.sock /\ c_end' = r.end
    /\ UNCHANGED << listening, c_pc, retry_count, c_attempts, c_sleeps, c_last, c_unreach >>
    /\ UNCHANGED << shmVars, gpuVars, sockVars, attVars, gfVars, raceVars, lifeVars, sendVars, loopVars, prodVars, fatalVars, gwVars, ordVars, srcVars, warnVars >>

NextConn ==
    \/ ServerListen \/ ServerStop \/ ConnectAttempt \/ ConnectSleep
    \/ ModelLoadFails \/ ClientFinally

SpecConn == InitConn /\ [][NextConn]_vars

\* C8: while every connect is refused or times out, the client makes at
\* most max_retries attempts, each one after the first preceded by one
\* sleep; it gives up after exactly max_retries attempts and never enters
\* the receive loop.
C8_ReconnectBound ==
    c_unreach =>
        /\ c_attempts <= max_retries
        /\ c_pc # "loop"
        /\ c_pc = "connect" => c_sleeps = c_attempts
        /\ c_pc = "sleep" => c_sleeps = c_attempts - 1
        /\ c_pc = "exit" => (c_attempts = max_retries /\ c_sleeps = max_retries - 1)
        /\ c_attempts = max_retries => c_pc = "exit"

C8_Witness ==
    /\ c_unreach /\ c_pc = "exit"
    /\ c_attempts = max_retries /\ c_sleeps = max_retries - 1
    /\ c_last = "refused"

\* C9: a connect error other than a refused connection or a timeout ends
\* the connect phase at once: no sleep, no further attempt.
C9_OnlyRefusedOrTimeoutRetried ==
    c_last \in {"oserror", "other"} => c_pc = "exit"

\* C34: when main of the socket client ends before its receive loop (model
\* load error, connect error that is not retried, connect attempts
\* exhausted), the cleanup closes the socket if one was created and main
\* returns without raising.
C34_CleanStartupExit ==
    (c_pc \in {"exit", "failed"} /\ c_end # "running") =>
        (c_end = "returned" /\ c_sock # "open")

(***************************************************************************)
(* SpecAttach: the attach phase of the shared-memory consumers,            *)
(* inference_shm.main and inference_gpu.main, with producers that create   *)
(* and unlink the segments at any time.                                    *)
(***************************************************************************)
InitAttach == ShmIdle /\ GpuIdle /\ SockIdle /\ ConnIdle /\ AttIdle /\ GfIdle /\ RaceIdle /\ LifeIdle /\ SendIdle /\ LoopIdle /\ ProdIdle /\ FatalIdle /\ GwIdle /\ OrdIdle /\ SrcIdle /\ WarnIdle

\* data_source_shm.main / data_source_gpu.main create the segment
ProducerCreate(p) ==
    /\ ~seg_exists[p]
    /\ seg_exists' = [seg_exists EXCEPT ![p] = TRUE]
    /\ UNCHANGED << a_pc, a_retry, a_attempts, a_sleeps, a_last >>
    /\ UNCHANGED << shmVars, gpuVars, sockVars, connVars, gfVars, raceVars, lifeVars, sendVars, loopVars, prodVars, fatalVars, gwVars, ordVars, srcVars, warnVars >>

\* the producer's finally block unlinks the segment
ProducerUnlink(p) ==
    /\ seg_exists[p]
    /\ seg_exists' = [seg_exists EXCEPT ![p] = FALSE]
    /\ UNCHANGED << a_pc, a_retry, a_attempts, a_sleeps, a_last >>
    /\ UNCHANGED << shmVars, gpuVars, sockVars, connVars, gfVars, raceVars, lifeVars, sendVars, loopVars, prodVars, fatalVars, gwVars, ordVars, srcVars, warnVars >>

\* outcomes SharedMemory(name=SHM_NAME, create=False) can have
AttachOutcomes(p) ==
    IF seg_exists[p] THEN {"ok", "other"} ELSE {"notfound", "other"}

\* one evaluation of the while condition at inference_shm.py:189 /
\* inference_gpu.py:207 and, when it holds, one pass of the body
AttachAttempt(p) ==
    /\ a_pc[p] = "attach"
    /\ IF a_retry[p] < max_retries
       THEN \E outcome \in AttachOutcomes(p) :
              /\ a_last' = [a_last EXCEPT ![p] = outcome]
              /\ a_attempts' = [a_attempts EXCEPT ![p] = @ + 1]
              /\ IF outcome = "ok"
                 THEN /\ a_pc' = [a_pc EXCEPT ![p] = "reading"]
                      /\ a_retry' = a_retry
                 ELSE IF outcome = "notfound"
                      THEN /\ a_retry' = [a_retry EXCEPT ![p] = @ + 1]
                           /\ a_pc' = [a_pc EXCEPT ![p] =
                                         IF attach_retries_left(a_retry[p] + 1)
                                         THEN "sleep" ELSE "exit"]
                      ELSE /\ a_pc' = [a_pc EXCEPT ![p] = "exit"]
                           /\ a_retry' = a_retry
       ELSE /\ a_pc' = [a_pc EXCEPT ![p] = "reading"]
            /\ UNCHANGED << a_retry, a_attempts, a_last >>
    /\ UNCHANGED << seg_exists, a_sleeps >>
    /\ UNCHANGED << shmVars, gpuVars, sockVars, connVars, gfVars, raceVars, lifeVars, sendVars, loopVars, prodVars, fatalVars, gwVars, ordVars, srcVars, warnVars >>

\* time.sleep(1) returns
AttachSleep(p) ==
    /\ a_pc[p] = "sleep"
    /\ a_sleeps' = [a_sleeps EXCEPT ![p] = @ + 1]
    /\ a_pc' = [a_pc EXCEPT ![p] = "attach"]
    /\ UNCHANGED << seg_exists, a_retry, a_attempts, a_last >>
    /\ UNCHANGED << shmVars, gpuVars, sockVars, connVars, gfVars, raceVars, lifeVars, sendVars, loopVars, prodVars, fatalVars, gwVars, ordVars, srcVars, warnVars >>

NextAttach ==
    \E p \in Consumers :
        ProducerCreate(p) \/ ProducerUnlink(p) \/ AttachAttempt(p) \/ AttachSleep(p)

SpecAttach == InitAttach /\ [][NextAttach]_vars

\* C10: each shared-memory consumer makes at most max_retries attach
\* attempts, retries only after a not-found failure and only after one
\* sleep, starts reading exactly when an attempt finds the segment, exits
\* without reading once max_retries attempts found none, and exits right
\* after an attempt that fails in any other way.
C10_AttachRetry ==
    \A p \in Consumers :
        /\ a_attempts[p] <= max_retries
        /\ a_pc[p] = "sleep" => (a_last[p] = "notfound" /\ a_sleeps[p] = a_attempts[p] - 1)
        /\ a_pc[p] = "attach" =>
              (a_sleeps[p] = a_attempts[p] /\ a_last[p] \in {"none", "notfound"})
        /\ a_pc[p] = "reading" <=> a_last[p] = "ok"
        /\ a_last[p] = "other" => a_pc[p] = "exit"
        /\ (a_last[p] = "notfound" /\ a_attempts[p] = max_retries) => a_pc[p] = "exit"
        /\ (a_pc[p] = "exit" /\ a_last[p] = "notfound") =>
              (a_attempts[p] = max_retries /\ a_sleeps[p] = max_retries - 1)

C10_Witness ==
    /\ a_pc["shm"] = "exit" /\ a_last["shm"] = "notfound"
    /\ a_attempts["shm"] = max_retries /\ a_sleeps["shm"] = max_retries - 1
    /\ a_pc["gpu"] = "reading" /\ a_attempts["gpu"] = 3 /\ a_sleeps["gpu"] = 2

C10_WitnessOtherError ==
    /\ a_pc["gpu"] = "exit" /\ a_last["gpu"] = "other" /\ a_attempts["gpu"] = 1
    /\ a_sleeps["gpu"] = 0

(***************************************************************************)
(* SpecGpuRun: the loop of data_source_gpu.main publishing headers and the *)
(* loop of inference_gpu.main polling them, unsynchronized: every slice    *)
(* store of the writer and every slice load of the reader is a step of its *)
(* own.  The capture object has the fields GPUCameraCapture.__init__       *)
(* assigns (frame_id, gpu_buffer, gpu_ptr); PriorFrames is the number of   *)
(* frames it has delivered before the window modelled.                     *)
(***************************************************************************)
MaxGpuCycles == 2
MaxPolls == 2
PriorFrames == 254

\* cap.read(): every byte of the frames the camera delivers (the segment
\* is zero-filled when created)
CameraByte == 255

\* the header and device buffer the producer has left after n frames
PublishedSegment(n, ptr) ==
    IF n = 0 THEN [k \in 1..GPU_SHM_TOTAL_SIZE |-> 0]
    ELSE write_gpu_frame_to_shm([k \in 1..GPU_SHM_TOTAL_SIZE |-> 0], ptr,
                                << MAX_HEIGHT, MAX_WIDTH, MAX_CHANNELS >>, n).seg

InitGpuRun ==
    /\ \E n \in {0, PriorFrames}, pc \in BOOLEAN :
          /\ cam_frame_id = n
          /\ cam_pycuda = pc
          /\ gshm = PublishedSegment(n, IF pc THEN DevPtr ELSE 0)
          /\ published = IF n = 0 THEN << >> ELSE << n >>
    /\ devmem = [n \in 1..SHM_DATA_SIZE |-> 0]
    /\ pycuda_avail \in BOOLEAN
    /\ torch_avail \in BOOLEAN
    /\ gop = "init" /\ gres = NoneTriple
    /\ gp_pc = 0
    /\ gp_args = [gpu_ptr |-> 0, shape |-> << >>, frame_id |-> 0]
    /\ gp_cycles = 0
    /\ gc_buf = << >>
    /\ gc_polls = 0
    /\ gc_ids = << >>
    /\ gc_last_frame = None
    /\ gc_last_frame_id = 0
    /\ gc_inferred = << >>
    /\ ShmIdle /\ SockIdle /\ ConnIdle /\ AttIdle /\ RaceIdle /\ LifeIdle /\ SendIdle /\ LoopIdle /\ ProdIdle /\ FatalIdle /\ GwIdle /\ OrdIdle /\ SrcIdle /\ WarnIdle

\* data_source_gpu.main, one pass from camera.read_to_gpu() to either the
\* continue, the rejected write, or the first store of an accepted write
GpuCapture ==
    /\ gp_pc = 0
    /\ gp_cycles < MaxGpuCycles
    /\ gp_cycles' = gp_cycles + 1
    /\ \E captured \in BOOLEAN, c \in 1..(MAX_CHANNELS + 1), copyOk \in BOOLEAN :
          LET r == read_to_gpu(cam_frame_id, captured, c, cam_pycuda, copyOk)
          IN  /\ cam_frame_id' = r.kept
              /\ devmem' = IF r.success /\ r.gpu_ptr > 0
                           THEN [n \in 1..SHM_DATA_SIZE |-> CameraByte] ELSE devmem
              /\ IF ~r.success \/ gpu_write_rejected(r.shape)
                 THEN UNCHANGED << gp_pc, gp_args >>
                 ELSE /\ gp_pc' = 1
                      /\ gp_args' = [gpu_ptr |-> r.gpu_ptr, shape |-> r.shape,
                                     frame_id |-> r.frame_id]
    /\ UNCHANGED << cam_pycuda, published, gc_buf, gc_polls, gc_ids, gc_last_frame,
                    gc_last_frame_id, gc_inferred >>
    /\ UNCHANGED << gshm, pycuda_avail, torch_avail, gop, gres >>
    /\ UNCHANGED << shmVars, sockVars, connVars, attVars, raceVars, lifeVars, sendVars, loopVars, prodVars, fatalVars, gwVars, ordVars, srcVars, warnVars >>

\* one slice store of write_gpu_frame_to_shm; after the last the call
\* returns True
GpuStore ==
    /\ gp_pc > 0
    /\ LET stores == gpu_header_stores(gp_args.gpu_ptr, gp_args.shape, gp_args.frame_id)
           st == stores[gp_pc]
       IN  /\ gshm' = SetSlice(gshm, st.at, st.bytes)
           /\ IF gp_pc = Len(stores)
              THEN /\ gp_pc' = 0
                   /\ published' = Append(published, gp_args.frame_id)
              ELSE /\ gp_pc' = gp_pc + 1
                   /\ UNCHANGED published
    /\ UNCHANGED << cam_frame_id, cam_pycuda, gp_args, gp_cycles, gc_buf,
                    gc_polls, gc_ids, gc_last_frame, gc_last_frame_id, gc_inferred >>
    /\ UNCHANGED << devmem, pycuda_avail, torch_avail, gop, gres >>
    /\ UNCHANGED << shmVars, sockVars, connVars, attVars, raceVars, lifeVars, sendVars, loopVars, prodVars, fatalVars, gwVars, ordVars, srcVars, warnVars >>

\* one header load of read_gpu_frame_from_shm but the last
GpuLoad ==
    /\ gc_polls < MaxPolls
    /\ Len(gc_buf) < 20
    /\ \E i \in 1..Len(gpu_header_loads) :
          /\ gpu_header_loads[i].at = Len(gc_buf)
          /\ gc_buf' = gc_buf \o Slice(gshm, gpu_header_loads[i].at,
                                       gpu_header_loads[i].at + gpu_header_loads[i].n)
    /\ UNCHANGED << cam_frame_id, cam_pycuda, gp_pc, gp_args, published, gp_cycles,
                    gc_polls, gc_ids, gc_last_frame, gc_last_frame_id,
                    gc_inferred >>
    /\ UNCHANGED gpuVars
    /\ UNCHANGED << shmVars, sockVars, connVars, attVars, raceVars, lifeVars, sendVars, loopVars, prodVars, fatalVars, gwVars, ordVars, srcVars, warnVars >>

\* the load of frame_id, the rest of read_gpu_frame_from_shm, and what
\* inference_gpu.main does with the result in that cycle
GpuPoll ==
    /\ gc_polls < MaxPolls
    /\ Len(gc_buf) = 20
    /\ \E devOk \in BOOLEAN, cudaOk \in BOOLEAN :
          LET hdr == gc_buf \o Slice(gshm, 20, 28)
              view == hdr \o Slice(gshm, GPU_SHM_META_SIZE, GPU_SHM_TOTAL_SIZE)
              r == read_gpu_frame_from_shm(view, pycuda_avail, torch_avail,
                                           devmem, devOk, cudaOk)
          IN  /\ gres' = r
              /\ IF r.isNone
                 THEN UNCHANGED << gc_ids, gc_last_frame, gc_last_frame_id, gc_inferred >>
                 ELSE /\ gc_ids' = Append(gc_ids, r.frame_id)
                      /\ gc_last_frame' = r.frame
                      /\ gc_last_frame_id' = r.frame_id
                      /\ gc_inferred' = Append(gc_inferred, r.frame_id)
    /\ gop' = "read"
    /\ gc_buf' = << >>
    /\ gc_polls' = gc_polls + 1
    /\ UNCHANGED << cam_frame_id, cam_pycuda, gp_pc, gp_args, published, gp_cycles >>
    /\ UNCHANGED << gshm, devmem, pycuda_avail, torch_avail >>
    /\ UNCHANGED << shmVars, sockVars, connVars, attVars, raceVars, lifeVars, sendVars, loopVars, prodVars, fatalVars, gwVars, ordVars, srcVars, warnVars >>

NextGpuRun == GpuCapture \/ GpuStore \/ GpuLoad \/ GpuPoll

SpecGpuRun == InitGpuRun /\ [][NextGpuRun]_vars

\* C11: the frame_id values returned by the successive reads of a polling
\* consumer never decrease.
C11_FrameIdNonDecreasing ==
    \A i \in 1..Len(gc_ids) : \A j \in i..Len(gc_ids) : gc_ids[i] <= gc_ids[j]

C11_Witness ==
    /\ Len(gc_ids) = 2
    /\ gc_ids[1] = PriorFrames /\ gc_ids[2] = PriorFrames + 2
    /\ gp_pc = 0

\* C12: every published header carries a frame_id greater than that of
\* every header published before it, whatever capture failures, device
\* copy failures and size rejections happen in between.
C12_FrameIdStrictlyIncreasing ==
    \A i \in 1..Len(published) : \A j \in 1..Len(published) :
        i < j => published[i] < published[j]

C12_Witness ==
    /\ Len(published) = 2
    /\ gp_cycles = 2
    /\ published[2] = published[1] + 2

\* C13: the GPU consumer never gives two freshly read frames with the same
\* frame_id to inference.
C13_NoFrameIdProcessedTwice ==
    \A i \in 1..Len(gc_inferred) : \A j \in 1..Len(gc_inferred) :
        i # j => gc_inferred[i] # gc_inferred[j]

\* C33: when the producer publishes headers with device pointer 0 (the
\* host fallback), the pixel bytes read_gpu_frame_from_shm returns for a
\* published header are the bytes of the frame the producer captured.
C33_HostFallbackDelivery ==
    (gop = "read" /\ ~gres.isNone /\ ~cam_pycuda /\ published # << >>) =>
        \A t \in DOMAIN gres.frame.px : gres.frame.px[t] = CameraByte

(***************************************************************************)
(* SpecRace: data_source_shm.main writing and inference_shm.main reading   *)
(* the same segment with no synchronization: every store of the writer and *)
(* every load of the reader is a step of its own.                          *)
(***************************************************************************)
MaxRaceWrites == 2
MaxRaceReads == 2

\* frames of two shapes with the same number of bytes
RaceFrames ==
    { ZeroFrame(1, 2, 1),
      Frame(2, 1, 1, [t \in Index(2, 1, 1) |-> 255]),
      Frame(1, 1, 1, [t \in Index(1, 1, 1) |-> 255]) }

InitRace == ShmIdle /\ GpuIdle /\ SockIdle /\ ConnIdle /\ AttIdle /\ GfIdle /\ RaceIdle /\ LifeIdle /\ SendIdle /\ LoopIdle /\ ProdIdle /\ FatalIdle /\ GwIdle /\ OrdIdle /\ SrcIdle /\ WarnIdle

\* data_source_shm.main calls write_frame_to_shm: the size check passes
\* and the first store is next
RaceWriteCall ==
    /\ pw_pc = 0
    /\ Len(pw_log) < MaxRaceWrites
    /\ \E frame \in RaceFrames :
          /\ ~Exceeds(frame)
          /\ pw_frame' = frame
          /\ pw_log' = Append(pw_log, frame)
    /\ pw_pc' = 1
    /\ UNCHANGED << cshm, cown, pr_pc, pr_bytes, pr_own, pr_overlap, pr_early, pr_ret,
                    pr_ret_own, pr_reads >>
    /\ UNCHANGED << shmVars, gpuVars, sockVars, connVars, attVars, gfVars, lifeVars, sendVars, loopVars, prodVars, fatalVars, gwVars, ordVars, srcVars, warnVars >>

\* one store of write_frame_to_shm; after the last the call returns True
RaceStore ==
    /\ pw_pc > 0
    /\ LET stores == shm_stores(pw_frame)
           st == stores[pw_pc]
       IN  /\ cshm' = SetSlice(cshm, st.at, st.bytes)
           /\ cown' = SetSlice(cown, st.at, [i \in 1..Len(st.bytes) |-> Len(pw_log)])
           /\ pw_pc' = IF pw_pc = Len(stores) THEN 0 ELSE pw_pc + 1
    /\ pr_overlap' = TRUE
    /\ UNCHANGED << pw_frame, pw_log, pr_pc, pr_bytes, pr_own, pr_early, pr_ret,
                    pr_ret_own, pr_reads >>
    /\ UNCHANGED << shmVars, gpuVars, sockVars, connVars, attVars, gfVars, lifeVars, sendVars, loopVars, prodVars, fatalVars, gwVars, ordVars, srcVars, warnVars >>

\* inference_shm.main calls read_frame_from_shm
RaceReadCall ==
    /\ pr_pc = 0
    /\ pr_reads < MaxRaceReads
    /\ pr_pc' = 1
    /\ pr_bytes' = << >>
    /\ pr_own' = << >>
    /\ pr_overlap' = (pw_pc > 0)
    /\ pr_early' = (Len(pw_log) = 0 \/ (Len(pw_log) = 1 /\ pw_pc > 0))
    /\ UNCHANGED << cshm, cown, pw_pc, pw_frame, pw_log, pr_ret, pr_ret_own, pr_reads >>
    /\ UNCHANGED << shmVars, gpuVars, sockVars, connVars, attVars, gfVars, lifeVars, sendVars, loopVars, prodVars, fatalVars, gwVars, ordVars, srcVars, warnVars >>

\* read_frame_from_shm returns
RaceReturn(value) ==
    /\ pr_ret' = value
    /\ pr_ret_own' = pr_own'
    /\ pr_pc' = 0
    /\ pr_reads' = pr_reads + 1

\* one header load; after the third, the size check and the slice
RaceLoadHeader ==
    /\ pr_pc \in 1..3
    /\ pr_bytes' = pr_bytes \o Slice(cshm, 4 * (pr_pc - 1), 4 * pr_pc)
    /\ pr_own' = pr_own \o Slice(cown, 4 * (pr_pc - 1), 4 * pr_pc)
    /\ IF pr_pc < 3
       THEN /\ pr_pc' = pr_pc + 1
            /\ UNCHANGED << pr_ret, pr_ret_own, pr_reads >>
       ELSE LET w == unpack_I(Slice(pr_bytes', 0, 4))
                h == unpack_I(Slice(pr_bytes', 4, 8))
                c == unpack_I(Slice(pr_bytes', 8, 12))
            IN  IF w = 0 \/ h = 0 \/ c = 0 \/ w > MAX_WIDTH \/ h > MAX_HEIGHT
                THEN RaceReturn(None)
                ELSE IF payload_slice_len(w, h, c) # Mul(Mul(w, h), c)
                     THEN RaceReturn(None)
                     ELSE /\ pr_pc' = 4
                          /\ UNCHANGED << pr_ret, pr_ret_own, pr_reads >>
    /\ UNCHANGED << cshm, cown, pw_pc, pw_frame, pw_log, pr_overlap, pr_early >>
    /\ UNCHANGED << shmVars, gpuVars, sockVars, connVars, attVars, gfVars, lifeVars, sendVars, loopVars, prodVars, fatalVars, gwVars, ordVars, srcVars, warnVars >>

\* one byte of the payload copy; after the last the call returns the frame
RaceLoadPayload ==
    /\ pr_pc = 4
    /\ LET w == unpack_I(Slice(pr_bytes, 0, 4))
           h == unpack_I(Slice(pr_bytes, 4, 8))
           c == unpack_I(Slice(pr_bytes, 8, 12))
           at == Len(pr_bytes)
       IN  /\ pr_bytes' = Append(pr_bytes, cshm[at + 1])
           /\ pr_own' = Append(pr_own, cown[at + 1])
           /\ IF Len(pr_bytes') = SHM_META_SIZE + Mul(Mul(w, h), c)
              THEN RaceReturn(reshape(Slice(pr_bytes', SHM_META_SIZE, Len(pr_bytes')),
                                      h, w, c))
              ELSE UNCHANGED << pr_pc, pr_ret, pr_ret_own, pr_reads >>
    /\ UNCHANGED << cshm, cown, pw_pc, pw_frame, pw_log, pr_overlap, pr_early >>
    /\ UNCHANGED << shmVars, gpuVars, sockVars, connVars, attVars, gfVars, lifeVars, sendVars, loopVars, prodVars, fatalVars, gwVars, ordVars, srcVars, warnVars >>

NextRace == RaceWriteCall \/ RaceStore \/ RaceReadCall \/ RaceLoadHeader \/ RaceLoadPayload

SpecRace == InitRace /\ [][NextRace]_vars

\* the frames passed to the accepted writes so far
WrittenFrames == {pw_log[i] : i \in 1..Len(pw_log)}

\* C14: a read returns a frame that no write stored only when a write was
\* under way during the read; such a read, with the header of write N and
\* a payload byte of write N+1, is reachable (C14_Witness).
C14_TornOnlyWhenOverlapped ==
    (pr_pc = 0 /\ pr_reads > 0 /\ ~pr_ret.isNone /\ pr_ret \notin WrittenFrames)
        => pr_overlap

C14_Witness ==
    /\ pr_pc = 0 /\ pr_reads > 0 /\ ~pr_ret.isNone
    /\ pr_ret \notin WrittenFrames
    /\ \A q \in 1..SHM_META_SIZE : pr_ret_own[q] = 1
    /\ \E p \in (SHM_META_SIZE + 1)..Len(pr_ret_own) : pr_ret_own[p] = 2
    /\ \E p \in (SHM_META_SIZE + 1)..Len(pr_ret_own) : pr_ret_own[p] = 1

\* C15: a store into the payload area happens only when the write under
\* way has stored all twelve header bytes, and a store into the header
\* only when that write has stored no payload byte.
C15_HeaderThenPayload ==
    [][ /\ (\E p \in (SHM_META_SIZE + 1)..SHM_TOTAL_SIZE : cown'[p] # cown[p])
            => \A q \in 1..SHM_META_SIZE : cown[q] = Len(pw_log)
        /\ (\E q \in 1..SHM_META_SIZE : cown'[q] # cown[q])
            => \A p \in (SHM_META_SIZE + 1)..SHM_TOTAL_SIZE : cown[p] # Len(pw_log)
      ]_vars

C15_Witness ==
    /\ pw_pc = 0
    /\ Len(pw_log) = 2
    /\ \A q \in 1..SHM_META_SIZE : cown[q] = 2
    /\ cown[SHM_META_SIZE + 1] = 2

\* the shapes of the frames passed to the accepted writes so far
WrittenShapes == {<< pw_log[i].h, pw_log[i].w, pw_log[i].c >> : i \in 1..Len(pw_log)}

\* C28: with one producer and a concurrent reader, a frame returned by
\* read_frame_from_shm has the shape (h, w, c) of one of the accepted
\* writes: width, height and channels of different writes are never
\* combined.
C28_HeaderConsistency ==
    (pr_pc = 0 /\ pr_reads > 0 /\ ~pr_ret.isNone)
        => << pr_ret.h, pr_ret.w, pr_ret.c >> \in WrittenShapes

\* C29: on a zero-filled segment, a read called before the first accepted
\* write has returned (its payload copy finished) returns None.
C29_NoFrameBeforeFirstWrite ==
    (pr_pc = 0 /\ pr_reads > 0 /\ pr_early) => pr_ret.isNone

(***************************************************************************)
(* SpecLife: the processes starting, running and shutting down in any      *)
(* order around one segment name.  The name may be taken at the start by a *)
(* segment a killed run left behind, of this or of another configuration.  *)
(***************************************************************************)
\* a segment left behind by a run that was killed
StaleSegment(size) ==
    [creator |-> "stale", size |-> size, unlinker |-> "none", owner_live |-> FALSE]

InitLife ==
    /\ \/ ns = 0 /\ segs = << >>
       \/ \E size \in {SHM_TOTAL_SIZE, SHM_TOTAL_SIZE + 1} :
             ns = 1 /\ segs = << StaleSegment(size) >>
    /\ l_pc = [p \in Procs |-> "off"]
    /\ l_seg = [p \in Procs |-> 0]
    /\ l_open = [p \in Procs |-> FALSE]
    /\ l_fin = [p \in Procs |-> << >>]
    /\ l_old = [p \in Prods |-> 0]
    /\ l_writes = [p \in Prods |-> {}]
    /\ l_recovered = [p \in Prods |-> FALSE]
    /\ l_exit_len = [p \in Prods |-> 0]
    /\ ShmIdle /\ GpuIdle /\ SockIdle /\ ConnIdle /\ AttIdle /\ GfIdle /\ RaceIdle /\ SendIdle /\ LoopIdle /\ ProdIdle /\ FatalIdle /\ GwIdle /\ OrdIdle /\ SrcIdle /\ WarnIdle

LifeOthers == << shmVars, gpuVars, sockVars, connVars, attVars, gfVars, raceVars, sendVars,
                 loopVars, prodVars, fatalVars, gwVars, ordVars, srcVars, warnVars >>

\* the process is past its start and has not finished
Live(proc) == l_pc[proc] \notin {"off", "exited", "crashed"}

\* SharedMemory(name=SHM_NAME, create=True, size=...) succeeds for p
Created(p) ==
    /\ segs' = Append(segs, [creator |-> p, size |-> create_size,
                             unlinker |-> "none", owner_live |-> FALSE])
    /\ ns' = Len(segs) + 1
    /\ l_seg' = [l_seg EXCEPT ![p] = Len(segs) + 1]
    /\ l_open' = [l_open EXCEPT ![p] = TRUE]
    /\ l_pc' = [l_pc EXCEPT ![p] = "running"]

\* a program is started; data_source_gpu.main returns at once because
\* GPUCameraCapture(...) raises (PYCUDA_AVAILABLE is local to __init__)
LifeStart(proc) ==
    /\ l_pc[proc] = "off"
    /\ l_pc' = [l_pc EXCEPT ![proc] =
                   IF proc \in Prods THEN "create"
                   ELSE IF proc = GpuProd THEN "exited"
                   ELSE "attach"]
    /\ UNCHANGED << ns, segs, l_seg, l_open, l_fin, l_old, l_writes, l_recovered,
                    l_exit_len >>
    /\ UNCHANGED LifeOthers

\* data_source_shm.main: the first SharedMemory(create=True)
LifeCreate(p) ==
    /\ l_pc[p] = "create"
    /\ IF ns = 0
       THEN /\ Created(p)
            /\ UNCHANGED l_recovered
       ELSE /\ l_pc' = [l_pc EXCEPT ![p] = "recover_attach"]
            /\ l_recovered' = [l_recovered EXCEPT ![p] = TRUE]
            /\ UNCHANGED << ns, segs, l_seg, l_open >>
    /\ UNCHANGED << l_fin, l_old, l_writes, l_exit_len >>
    /\ UNCHANGED LifeOthers

\* except FileExistsError: old_shm = SharedMemory(name=SHM_NAME); a
\* FileNotFoundError falls into the bare except
LifeRecoverAttach(p) ==
    /\ l_pc[p] = "recover_attach"
    /\ IF ns = 0
       THEN /\ l_pc' = [l_pc EXCEPT ![p] = "recreate"]
            /\ UNCHANGED l_old
       ELSE /\ l_pc' = [l_pc EXCEPT ![p] = "recover_unlink"]
            /\ l_old' = [l_old EXCEPT ![p] = ns]
    /\ UNCHANGED << ns, segs, l_seg, l_open, l_fin, l_writes, l_recovered, l_exit_len >>
    /\ UNCHANGED LifeOthers

\* old_shm.close(); old_shm.unlink()
LifeRecoverUnlink(p) ==
    /\ l_pc[p] = "recover_unlink"
    /\ LET r == unlink_by_name(ns, segs, p,
                               ns # 0 /\ segs[ns].creator \in Procs
                                      /\ Live(segs[ns].creator))
       IN  ns' = r.names /\ segs' = r.segs
    /\ l_pc' = [l_pc EXCEPT ![p] = "recreate"]
    /\ UNCHANGED << l_seg, l_open, l_fin, l_old, l_writes, l_recovered, l_exit_len >>
    /\ UNCHANGED LifeOthers

\* the second SharedMemory(create=True); its FileExistsError is not caught
LifeRecreate(p) ==
    /\ l_pc[p] = "recreate"
    /\ IF ns = 0
       THEN Created(p)
       ELSE /\ l_pc' = [l_pc EXCEPT ![p] = "crashed"]
            /\ UNCHANGED << ns, segs, l_seg, l_open >>
    /\ UNCHANGED << l_fin, l_old, l_writes, l_recovered, l_exit_len >>
    /\ UNCHANGED LifeOthers

\* write_frame_to_shm(shm, frame) in the producer loop
LifeWrite(p) ==
    /\ p \in Prods
    /\ l_pc[p] = "running"
    /\ l_writes' = [l_writes EXCEPT ![p] = @ \cup {l_seg[p]}]
    /\ UNCHANGED << ns, segs, l_pc, l_seg, l_open, l_fin, l_old, l_recovered, l_exit_len >>
    /\ UNCHANGED LifeOthers

\* a consumer's SharedMemory(name=SHM_NAME, create=False): it attaches, or
\* finds nothing and (retries exhausted) returns
LifeAttach(k) ==
    /\ l_pc[k] = "attach"
    /\ IF ns # 0
       THEN /\ l_seg' = [l_seg EXCEPT ![k] = ns]
            /\ l_open' = [l_open EXCEPT ![k] = TRUE]
            /\ l_pc' = [l_pc EXCEPT ![k] = "running"]
       ELSE /\ l_pc' = [l_pc EXCEPT ![k] = "exited"]
            /\ UNCHANGED << l_seg, l_open >>
    /\ UNCHANGED << ns, segs, l_fin, l_old, l_writes, l_recovered, l_exit_len >>
    /\ UNCHANGED LifeOthers

\* the loop of a producer or consumer ends (KeyboardInterrupt, an
\* exception, the 'q' key): control enters the finally block
LifeLoopEnds(proc) ==
    /\ l_pc[proc] = "running"
    /\ l_pc' = [l_pc EXCEPT ![proc] = "finally"]
    /\ l_fin' = [l_fin EXCEPT ![proc] = finally_steps(Program(proc))]
    /\ UNCHANGED << ns, segs, l_seg, l_open, l_old, l_writes, l_recovered, l_exit_len >>
    /\ UNCHANGED LifeOthers

\* the next shared-memory call of the finally block; after the last, main
\* returns
LifeFinally(proc) ==
    /\ l_pc[proc] = "finally"
    /\ l_fin[proc] # << >>
    /\ l_fin' = [l_fin EXCEPT ![proc] = Tail(@)]
    /\ IF Head(l_fin[proc]) = "close"
       THEN /\ l_open' = [l_open EXCEPT ![proc] = FALSE]
            /\ UNCHANGED << ns, segs >>
       ELSE /\ LET r == unlink_by_name(ns, segs, proc,
                            ns # 0 /\ segs[ns].creator \in Procs
                                   /\ Live(segs[ns].creator))
               IN  ns' = r.names /\ segs' = r.segs
            /\ UNCHANGED l_open
    /\ IF Tail(l_fin[proc]) = << >>
       THEN /\ l_pc' = [l_pc EXCEPT ![proc] = "exited"]
            /\ l_exit_len' = IF proc \in Prods
                             THEN [l_exit_len EXCEPT ![proc] = Len(segs)]
                             ELSE l_exit_len
       ELSE UNCHANGED << l_pc, l_exit_len >>
    /\ UNCHANGED << l_seg, l_old, l_writes, l_recovered >>
    /\ UNCHANGED LifeOthers

NextLife ==
    \/ \E proc \in Procs : LifeStart(proc) \/ LifeLoopEnds(proc) \/ LifeFinally(proc)
    \/ \E p \in Prods : LifeCreate(p) \/ LifeRecoverAttach(p) \/ LifeRecoverUnlink(p)
                           \/ LifeRecreate(p) \/ LifeWrite(p)
    \/ \E k \in Consumers : LifeAttach(k)

SpecLife == InitLife /\ [][NextLife]_vars

\* C16: no consumer unlinks a segment while the producer that created it
\* is still running.
C16_OwnerOnlyUnlink ==
    \A i \in 1..Len(segs) : ~(segs[i].unlinker \in Consumers /\ segs[i].owner_live)

\* C17: a shared-memory producer that has left its loop and exited has
\* closed its handle, and the name refers to no segment until a segment
\* is created again.
C17_ProducerShutdownDestroys ==
    \A p \in Prods :
        l_pc[p] = "exited" =>
            /\ ~l_open[p]
            /\ Len(segs) = l_exit_len[p] => ns = 0

C17_Witness ==
    /\ l_pc["p1"] = "exited" /\ l_writes["p1"] = {1}
    /\ segs[1].unlinker = "p1"
    /\ ns = 0
    /\ l_pc["gpu"] = "exited" /\ l_seg["gpu"] = 0

\* C18: a producer that finds the name taken unlinks the segment under it
\* and creates a new one; when its startup completes the name refers to a
\* segment this producer created, of 12 + MAX_WIDTH*MAX_HEIGHT*MAX_CHANNELS
\* bytes, and the producer never writes to any other segment.
C18_CreateConflictRecovery ==
    /\ [](\A p \in Prods : \A i \in l_writes[p] :
              i = l_seg[p] /\ segs[i].creator = p)
    /\ [][\A p \in Prods :
              (l_pc[p] # "running" /\ l_pc'[p] = "running") =>
                  /\ ns' = l_seg'[p]
                  /\ segs'[ns'].creator = p
                  /\ segs'[ns'].size = 12 + MAX_WIDTH * MAX_HEIGHT * MAX_CHANNELS
                  /\ l_recovered[p] => (l_old[p] = 0 \/ segs'[l_old[p]].unlinker # "none")
         ]_vars

C18_Witness ==
    /\ l_pc["p1"] = "running" /\ l_recovered["p1"]
    /\ Len(segs) = 2 /\ segs[1].creator = "stale" /\ segs[1].unlinker = "p1"
    /\ segs[1].size # segs[2].size
    /\ ns = 2 /\ l_writes["p1"] = {2}

\* C26: with two producers under the same name, the unlink of a
\* producer's shutdown removes only a segment that producer created, and a
\* segment another running producer created stays under the name.
C26_ShutdownUnlinksOwnSegment ==
    [][\A p \in Prods :
          (/\ l_pc[p] = "finally"
           /\ l_fin[p] # << >>
           /\ Head(l_fin[p]) = "unlink"
           /\ l_fin'[p] = Tail(l_fin[p])
           /\ ns # 0)
          => /\ ns' = 0 => segs[ns].creator = p
             /\ \A q \in Prods \ {p} :
                   (l_pc[q] = "running" /\ l_seg[q] = ns) => ns' = l_seg[q]
      ]_vars

(***************************************************************************)
(* SpecSend: data_source.main from server_socket.listen(1) to its return.  *)
(***************************************************************************)
MaxSendCycles == 2

InitSend ==
    /\ ShmIdle /\ GpuIdle /\ SockIdle /\ ConnIdle /\ AttIdle /\ GfIdle /\ RaceIdle
    /\ LifeIdle /\ SendIdle /\ LoopIdle /\ ProdIdle /\ FatalIdle /\ GwIdle /\ OrdIdle /\ SrcIdle /\ WarnIdle

SendOthers == << shmVars, gpuVars, sockVars, connVars, attVars, gfVars, raceVars,
                 lifeVars, loopVars, prodVars, fatalVars, gwVars, ordVars, srcVars, warnVars >>

\* client_socket, client_address = server_socket.accept()
SrvAccept ==
    /\ d_pc = "accept"
    /\ d_client' = "open"
    /\ d_accepts' = d_accepts + 1
    /\ d_pc' = "capture"
    /\ UNCHANGED << d_frame, d_wire, d_calls, d_server, d_cycles, d_failed,
                    d_fail_len, d_fail_calls, d_peers >>
    /\ UNCHANGED SendOthers

\* ret, frame = cap.read(): no frame and continue, or a frame and the call
\* of send_frame
SrvCapture ==
    /\ d_pc = "capture"
    /\ d_cycles < MaxSendCycles
    /\ d_cycles' = d_cycles + 1
    /\ \/ /\ d_frame' = None
          /\ UNCHANGED << d_pc, d_calls >>
       \/ \E frame \in SockFrames :
             /\ d_frame' = frame
             /\ d_calls' = Append(d_calls, frame)
             /\ d_pc' = "send1"
    /\ UNCHANGED << d_wire, d_client, d_server, d_failed, d_fail_len, d_fail_calls,
                    d_accepts, d_peers >>
    /\ UNCHANGED SendOthers

\* send_frame returns ok to main
SendFrameReturns(ok, wire) ==
    /\ d_pc' = after_send_frame(ok)
    /\ d_failed' = (d_failed \/ ~ok)
    /\ d_fail_len' = IF ok \/ d_failed THEN d_fail_len ELSE Len(wire)
    /\ d_fail_calls' = IF ok \/ d_failed THEN d_fail_calls ELSE Len(d_calls)

\* send_frame: sock.sendall(meta_data)
SrvSendMeta ==
    /\ d_pc = "send1"
    /\ \E r \in sendall(send_frame_calls(d_frame)[1]) :
          /\ d_wire' = d_wire \o r.bytes
          /\ IF r.ok
             THEN /\ d_pc' = "send2"
                  /\ UNCHANGED << d_failed, d_fail_len, d_fail_calls >>
             ELSE SendFrameReturns(FALSE, d_wire \o r.bytes)
    /\ d_peers' = d_peers \cup {d_accepts}
    /\ UNCHANGED << d_frame, d_calls, d_client, d_server, d_cycles, d_accepts >>
    /\ UNCHANGED SendOthers

\* send_frame: sock.sendall(frame_bytes), and the return to main
SrvSendData ==
    /\ d_pc = "send2"
    /\ \E r \in sendall(send_frame_calls(d_frame)[2]) :
          /\ d_wire' = d_wire \o r.bytes
          /\ SendFrameReturns(r.ok, d_wire \o r.bytes)
    /\ d_peers' = d_peers \cup {d_accepts}
    /\ UNCHANGED << d_frame, d_calls, d_client, d_server, d_cycles, d_accepts >>
    /\ UNCHANGED SendOthers

\* KeyboardInterrupt, or an exception outside send_frame
SrvInterrupt ==
    /\ d_pc \in {"accept", "capture", "send1", "send2"}
    /\ d_pc' = "finally"
    /\ UNCHANGED << d_frame, d_wire, d_calls, d_client, d_server, d_cycles,
                    d_failed, d_fail_len, d_fail_calls, d_accepts, d_peers >>
    /\ UNCHANGED SendOthers

\* the finally block: cap.release(), client_socket.close(),
\* server_socket.close()
SrvFinally ==
    /\ d_pc = "finally"
    /\ d_client' = close_if_set(d_client)
    /\ d_server' = close_if_set(d_server)
    /\ d_pc' = "exited"
    /\ UNCHANGED << d_frame, d_wire, d_calls, d_cycles, d_failed, d_fail_len,
                    d_fail_calls, d_accepts, d_peers >>
    /\ UNCHANGED SendOthers

NextSend ==
    \/ SrvAccept \/ SrvCapture \/ SrvSendMeta \/ SrvSendData \/ SrvInterrupt
    \/ SrvFinally

SpecSend == InitSend /\ [][NextSend]_vars

\* C19: once send_frame has failed, in the header send or in the payload
\* send, the server hands no further byte to the connection, calls
\* send_frame no more (the frame is not retried), has left the sending loop,
\* and has closed the client socket and the listening socket when it exits.
C19_SendFailureFatal ==
    d_failed =>
        /\ Len(d_wire) = d_fail_len
        /\ Len(d_calls) = d_fail_calls
        /\ d_pc \in {"finally", "exited"}
        /\ d_pc = "exited" => (d_client = "closed" /\ d_server = "closed")

\* the second frame failed in the middle of its payload, and the server has
\* exited
C19_Witness ==
    /\ d_failed
    /\ d_pc = "exited"
    /\ Len(d_calls) = 2
    /\ d_fail_len > 12 + Len(flatten(d_calls[1])) + 12

\* the first frame failed in its header send
C19_WitnessHeader ==
    /\ d_failed
    /\ d_pc = "exited"
    /\ Len(d_calls) = 1
    /\ d_fail_len < 12

\* C35: the socket server's accept returns at most once, and exactly once
\* before the sending loop runs; no byte is handed to a connection before
\* it has returned, every sendall is on that one connection, and after a
\* failed send or the close of the client socket no accept follows.
C35_SinglePeer ==
    /\ [](/\ d_accepts <= 1
          /\ d_pc \in {"capture", "send1", "send2"} => d_accepts = 1
          /\ (d_wire # << >> \/ d_calls # << >>) => d_accepts = 1
          /\ d_peers \subseteq {1})
    /\ [][d_accepts' # d_accepts =>
             (d_accepts = 0 /\ d_wire = << >> /\ ~d_failed /\ d_client = "none")]_vars

\* two frames sent to the one client, the second send failed, and the
\* server has exited
C35_Witness ==
    /\ d_pc = "exited"
    /\ d_accepts = 1
    /\ d_peers = {1}
    /\ Len(d_calls) = 2
    /\ d_failed
    /\ d_client = "closed" /\ d_server = "closed"

(***************************************************************************)
(* SpecLoop: the main loop of inference.py on a connection served by       *)
(* data_source.py, or the main loop of inference_shm.py on a segment that  *)
(* producers store to.                                                     *)
(***************************************************************************)
MaxLoopCycles == 3

InitLoop ==
    /\ lp_which \in {"sock", "shm"}
    /\ lp_pc = "read"
    /\ last_frame = None
    /\ no_frame_count = 0
    /\ lp_cycles = 0
    /\ lp_read = None
    /\ lp_inferred = FALSE
    /\ lp_arg = None
    /\ lp_good = None
    /\ lp_closed = FALSE
    /\ ShmIdle /\ GpuIdle /\ SockIdle /\ ConnIdle /\ AttIdle /\ GfIdle /\ RaceIdle
    /\ LifeIdle /\ SendIdle /\ ProdIdle /\ FatalIdle /\ GwIdle /\ OrdIdle /\ SrcIdle /\ WarnIdle

\* the loop body after the read returned frame: the None branch or the frame
\* branch, model.predict unless the cycle continues, and the key test of
\* the shared-memory consumer
LoopBody(frame, quit) ==
    LET r == select_frame(frame, last_frame)
    IN  /\ last_frame' = r.last_frame
        /\ no_frame_count' = count_no_frame(frame, no_frame_count)
        /\ lp_cycles' = lp_cycles + 1
        /\ lp_read' = frame
        /\ lp_inferred' = r.infer
        /\ lp_arg' = r.frame
        /\ lp_good' = IF frame.isNone THEN lp_good ELSE frame
        /\ lp_closed' = (lp_closed \/ (lp_which = "sock" /\ frame.isNone /\ r_why = "closed"))
        /\ lp_pc' = IF r.infer /\ quit THEN "quit" ELSE "read"
        /\ UNCHANGED lp_which

\* data_source.py serves the connection
LoopServer ==
    /\ lp_which = "sock"
    /\ SendMeta \/ SendData \/ ServerClose

\* inference.main: frame = receive_frame(sock), the call
LoopRecvCall ==
    /\ lp_which = "sock"
    /\ lp_pc = "read"
    /\ lp_cycles < MaxLoopCycles
    /\ r_calls = lp_cycles
    /\ RecvCall

\* receive_frame runs
LoopRecv ==
    /\ lp_which = "sock"
    /\ RecvMeta \/ RecvData \/ RecvNothing

\* inference.main: receive_frame has returned, the rest of the cycle
LoopCycleSock ==
    /\ lp_which = "sock"
    /\ lp_pc = "read"
    /\ r_pc = "idle"
    /\ r_calls = lp_cycles + 1
    /\ LoopBody(r_ret, FALSE)
    /\ UNCHANGED << shmVars, gpuVars, sockVars, connVars, attVars, gfVars, raceVars,
                    lifeVars, sendVars, prodVars, fatalVars, gwVars, ordVars, srcVars, warnVars >>

\* the shapes (h, w, c) producers store: two within the consumer's maxima,
\* one too high, one too wide, and the zero header of an unwritten segment
StoredShapes ==
    {<< 1, 1, 1 >>, << MAX_HEIGHT, MAX_WIDTH, MAX_CHANNELS >>,
     << MAX_HEIGHT + 1, 1, 1 >>, << 1, MAX_WIDTH + 1, 1 >>, << 0, 0, 0 >>}

\* a producer attached to the name stores a header and a payload; its
\* configured maxima need not be the consumer's
SegmentStore ==
    /\ lp_which = "shm"
    /\ \E s \in StoredShapes :
          shm' = pack_I(s[2]) \o pack_I(s[1]) \o pack_I(s[3])
                   \o [n \in 1..SHM_DATA_SIZE |-> IF n % 2 = 1 THEN 255 ELSE 0]
    /\ UNCHANGED << op, wkind, wres, rframe, rheld, lastFit, lastOk, nwrites >>
    /\ UNCHANGED << gpuVars, sockVars, connVars, attVars, gfVars, raceVars,
                    lifeVars, sendVars, loopVars, prodVars,
                    fatalVars, gwVars, ordVars, srcVars, warnVars >>

\* inference_shm.main: one cycle, from read_frame_from_shm(shm) to the key
\* test
LoopCycleShm ==
    /\ lp_which = "shm"
    /\ lp_pc = "read"
    /\ lp_cycles < MaxLoopCycles
    /\ \E quit \in BOOLEAN : LoopBody(read_frame_from_shm(shm), quit)
    /\ UNCHANGED << shmVars, gpuVars, sockVars, connVars, attVars, gfVars, raceVars,
                    lifeVars, sendVars, prodVars, fatalVars, gwVars, ordVars, srcVars, warnVars >>

NextLoop ==
    \/ LoopServer \/ LoopRecvCall \/ LoopRecv \/ LoopCycleSock
    \/ SegmentStore \/ LoopCycleShm

SpecLoop == InitLoop /\ [][NextLoop]_vars

\* C20: in the socket consumer and in the shared-memory consumer, a cycle
\* whose read returned no frame leaves the consumer in its loop; it hands
\* the last frame a read returned to inference when there is one, and runs
\* no inference when there is none; inference is never invoked without a
\* frame.
C20_BadReadContinues ==
    /\ lp_inferred => ~lp_arg.isNone
    /\ (lp_cycles > 0 /\ lp_read.isNone) =>
          /\ lp_pc \in {"read", "quit"}
          /\ lp_pc = "quit" => lp_inferred
          /\ IF lp_good.isNone
             THEN ~lp_inferred
             ELSE lp_inferred /\ lp_arg = lp_good

\* the socket consumer received a frame, then a read ended without one
\* (timeout, closed connection or invalid header), and the frame was reused
C20_Witness ==
    /\ lp_which = "sock"
    /\ lp_cycles = 2
    /\ lp_read.isNone
    /\ r_why \in {"timeout", "closed", "badhdr"}
    /\ lp_inferred
    /\ lp_arg = lp_good
    /\ no_frame_count = 1

\* the shared-memory consumer read a frame, then an invalid header, and
\* reused the frame
C20_WitnessShm ==
    /\ lp_which = "shm"
    /\ lp_cycles = 2
    /\ lp_read.isNone
    /\ ~lp_good.isNone
    /\ lp_inferred
    /\ lp_pc = "read"

\* a cycle without a frame and without an earlier one: no inference
C20_WitnessNoFrameYet ==
    /\ lp_cycles = 2
    /\ lp_read.isNone
    /\ lp_good.isNone
    /\ ~lp_inferred
    /\ no_frame_count = 2

\* C32: once a receive_frame call of the socket client has returned None
\* on a closed connection, every later call returns None; the client
\* connects no more, runs inference on its last good frame (none when it
\* never had one) and stays in its loop.
C32_ClosedIsPermanent ==
    [][(lp_which = "sock" /\ lp_closed /\ lp_cycles' = lp_cycles + 1) =>
          /\ lp_read'.isNone
          /\ r_why' \in {"closed", "error"}
          /\ s_pc' = "closed" /\ c_attempts' = c_attempts
          /\ last_frame' = last_frame
          /\ IF lp_good.isNone
             THEN ~lp_inferred'
             ELSE lp_inferred' /\ lp_arg' = lp_good /\ last_frame' = lp_good
          /\ lp_pc' = "read"
      ]_vars

\* a frame, then the closed connection, then one more call
C32_Witness ==
    /\ lp_which = "sock"
    /\ lp_cycles = 3
    /\ lp_closed
    /\ no_frame_count = 2
    /\ lp_read.isNone
    /\ r_why = "closed"
    /\ ~lp_good.isNone /\ lp_inferred /\ lp_arg = lp_good
    /\ lp_pc = "read"

(***************************************************************************)
(* SpecProd: the write loop of data_source_shm.main on the segment it      *)
(* created.                                                                *)
(***************************************************************************)
MaxProdCycles == 2

InitProd ==
    /\ ShmIdle /\ GpuIdle /\ SockIdle /\ ConnIdle /\ AttIdle /\ GfIdle /\ RaceIdle
    /\ LifeIdle /\ SendIdle /\ LoopIdle /\ ProdIdle /\ FatalIdle /\ GwIdle /\ OrdIdle /\ SrcIdle /\ WarnIdle

\* the source yields frames of every shape, one pixel pattern each
ProdFrames ==
    {Frame(s[1], s[2], s[3], [t \in Index(s[1], s[2], s[3]) |-> IF t[2] = 0 THEN 255 ELSE 0])
       : s \in Shapes}

ProdOthers == << gpuVars, sockVars, connVars, attVars, gfVars, raceVars, lifeVars,
                 sendVars, loopVars, fatalVars, gwVars, ordVars, srcVars, warnVars >>

\* one pass of the loop: frame = next(frame_gen), write_frame_to_shm(shm,
\* frame), the count, the sleep
ProdCycle ==
    /\ pd_pc = "loop"
    /\ Len(pd_log) < MaxProdCycles
    /\ \E frame \in ProdFrames :
          LET r == write_frame_to_shm(shm, frame)
              a == after_write_frame(r.ret, frame_count)
          IN  /\ shm' = r.seg
              /\ pd_before' = shm
              /\ pd_log' = Append(pd_log, [frame |-> frame, ok |-> r.ret])
              /\ frame_count' = a.frame_count
              /\ pd_pc' = a.pc
    /\ UNCHANGED << op, wkind, wres, rframe, rheld, lastFit, lastOk, nwrites >>
    /\ UNCHANGED pd_interrupted
    /\ UNCHANGED ProdOthers

\* KeyboardInterrupt during the sleep
ProdInterrupt ==
    /\ pd_pc = "loop"
    /\ pd_pc' = "finally"
    /\ pd_interrupted' = TRUE
    /\ UNCHANGED << frame_count, pd_log, pd_before >>
    /\ UNCHANGED shmVars
    /\ UNCHANGED ProdOthers

NextProd == ProdCycle \/ ProdInterrupt

SpecProd == InitProd /\ [][NextProd]_vars

\* the number of accepted writes among the first n entries of the log
RECURSIVE AcceptedIn(_, _)
AcceptedIn(log, n) ==
    IF n = 0 THEN 0
    ELSE AcceptedIn(log, n - 1) + (IF log[n].ok THEN 1 ELSE 0)

\* C21: a frame that exceeds a maximum is rejected, leaves the segment as it
\* was and is not counted in frame_count; the producer stays in its write
\* loop (it leaves it only by an interrupt), and a frame within the maxima
\* that comes later is written: it is counted and it is what a read returns.
C21_SizeExceededContinues ==
    /\ frame_count = AcceptedIn(pd_log, Len(pd_log))
    /\ \A i \in 1..Len(pd_log) : pd_log[i].ok = ~Exceeds(pd_log[i].frame)
    /\ ~pd_interrupted => pd_pc = "loop"
    /\ Len(pd_log) > 0 =>
          LET last == pd_log[Len(pd_log)]
          IN  IF Exceeds(last.frame)
              THEN shm = pd_before
              ELSE read_frame_from_shm(shm) = last.frame

\* a rejected frame, then a frame within the maxima, written and counted
C21_Witness ==
    /\ Len(pd_log) = 2
    /\ Exceeds(pd_log[1].frame)
    /\ ~Exceeds(pd_log[2].frame)
    /\ frame_count = 1
    /\ read_frame_from_shm(shm) = pd_log[2].frame
    /\ pd_pc = "loop"

(***************************************************************************)
(* SpecFatal: one producer from the start of its main to its return, with  *)
(* an exception possible at every step that can raise one.                 *)
(***************************************************************************)
MaxFatalCycles == 3

\* data_source.py has FPS = 10; the other two read data_source.fps from the
\* configuration file, 24 when absent
FpsOf(prog) == IF prog = "sock" THEN {10} ELSE {0, 10, 24}

InitFatal ==
    /\ k_prog \in {"sock", "shm", "gpu"}
    /\ k_pc = "start"
    /\ k_held = {}
    /\ k_attempted = {}
    /\ k_error = FALSE
    /\ k_fps \in FpsOf(k_prog)
    /\ k_exists \in (IF k_prog = "shm" THEN BOOLEAN ELSE {FALSE})
    /\ k_cycles = 0
    /\ k_env \in (IF k_prog = "gpu"
                  THEN [pycuda : BOOLEAN, allocOk : BOOLEAN, opens : BOOLEAN]
                  ELSE {[pycuda |-> FALSE, allocOk |-> FALSE, opens |-> FALSE]})
    /\ k_init = "none"
    /\ k_gpu_ptr = 0
    /\ ShmIdle /\ GpuIdle /\ SockIdle /\ ConnIdle /\ AttIdle /\ GfIdle /\ RaceIdle
    /\ LifeIdle /\ SendIdle /\ LoopIdle /\ ProdIdle /\ GwIdle /\ OrdIdle /\ SrcIdle /\ WarnIdle

FatalOthers == << shmVars, gpuVars, sockVars, connVars, attVars, gfVars, raceVars,
                  lifeVars, sendVars, loopVars, prodVars, gwVars, ordVars, srcVars, warnVars >>

FatalFixed == << k_prog, k_fps, k_env >>

\* a step inside the try block of main raises: control goes to the finally
\* block
RaisedInTry ==
    /\ k_error' = TRUE
    /\ k_pc' = "finally"

\* a step outside every try block raises: main ends there
RaisedOutsideTry ==
    /\ k_error' = TRUE
    /\ k_pc' = "exited"

\* data_source.main: the video test (the test capture is released before
\* either raise)
SockTestVideo ==
    /\ k_prog = "sock" /\ k_pc = "start"
    /\ \/ k_pc' = "socket" /\ UNCHANGED k_error
       \/ RaisedInTry
    /\ UNCHANGED << k_held, k_attempted, k_exists, k_cycles, k_init, k_gpu_ptr >>
    /\ UNCHANGED FatalFixed
    /\ UNCHANGED FatalOthers

\* server_socket = socket.socket(...)
SockCreate ==
    /\ k_prog = "sock" /\ k_pc = "socket"
    /\ k_held' = k_held \cup {"listening_socket"}
    /\ k_pc' = "bind"
    /\ UNCHANGED << k_attempted, k_error, k_exists, k_cycles, k_init, k_gpu_ptr >>
    /\ UNCHANGED FatalFixed
    /\ UNCHANGED FatalOthers

\* setsockopt, bind, listen
SockBind ==
    /\ k_prog = "sock" /\ k_pc = "bind"
    /\ \/ k_pc' = "accept" /\ UNCHANGED k_error
       \/ RaisedInTry
    /\ UNCHANGED << k_held, k_attempted, k_exists, k_cycles, k_init, k_gpu_ptr >>
    /\ UNCHANGED FatalFixed
    /\ UNCHANGED FatalOthers

\* client_socket, client_address = server_socket.accept()
SockAccept ==
    /\ k_prog = "sock" /\ k_pc = "accept"
    /\ \/ /\ k_held' = k_held \cup {"client_socket"}
          /\ k_pc' = "open"
          /\ UNCHANGED k_error
       \/ RaisedInTry /\ UNCHANGED k_held
    /\ UNCHANGED << k_attempted, k_exists, k_cycles, k_init, k_gpu_ptr >>
    /\ UNCHANGED FatalFixed
    /\ UNCHANGED FatalOthers

\* cap = cv2.VideoCapture(VIDEO_PATH); raise when it is not opened
SockOpenVideo ==
    /\ k_prog = "sock" /\ k_pc = "open"
    /\ \/ /\ k_held' = k_held \cup {"capture"}
          /\ k_pc' = "loop"
          /\ UNCHANGED k_error
       \/ RaisedInTry /\ UNCHANGED k_held
    /\ UNCHANGED << k_attempted, k_exists, k_cycles, k_init, k_gpu_ptr >>
    /\ UNCHANGED FatalFixed
    /\ UNCHANGED FatalOthers

\* SharedMemory(name=SHM_NAME, create=True, size=SHM_TOTAL_SIZE): created,
\* FileExistsError, or another error
ShmCreate ==
    /\ k_prog = "shm" /\ k_pc = "start"
    /\ IF k_exists
       THEN /\ k_pc' = "recover"
            /\ UNCHANGED << k_held, k_error, k_exists >>
       ELSE \/ /\ k_held' = k_held \cup {"segment"}
               /\ k_exists' = TRUE
               /\ k_pc' = "interval"
               /\ UNCHANGED k_error
            \/ RaisedOutsideTry /\ UNCHANGED << k_held, k_exists >>
    /\ UNCHANGED << k_attempted, k_cycles, k_init, k_gpu_ptr >>
    /\ UNCHANGED FatalFixed
    /\ UNCHANGED FatalOthers

\* attach to the old segment, close, unlink, every exception swallowed; then
\* the second create
ShmRecreate ==
    /\ k_prog = "shm" /\ k_pc = "recover"
    /\ \E unlinked \in BOOLEAN :
          IF unlinked
          THEN \/ /\ k_held' = k_held \cup {"segment"}
                  /\ k_exists' = TRUE
                  /\ k_pc' = "interval"
                  /\ UNCHANGED k_error
               \/ RaisedOutsideTry /\ k_exists' = FALSE /\ UNCHANGED k_held
          ELSE RaisedOutsideTry /\ UNCHANGED << k_held, k_exists >>
    /\ UNCHANGED << k_attempted, k_cycles, k_init, k_gpu_ptr >>
    /\ UNCHANGED FatalFixed
    /\ UNCHANGED FatalOthers

\* interval = 1.0 / FPS, before the try block of the write loop
ShmInterval ==
    /\ k_prog = "shm" /\ k_pc = "interval"
    /\ IF interval_raises(k_fps)
       THEN RaisedOutsideTry
       ELSE k_pc' = "loop" /\ UNCHANGED k_error
    /\ UNCHANGED << k_held, k_attempted, k_exists, k_cycles, k_init, k_gpu_ptr >>
    /\ UNCHANGED FatalFixed
    /\ UNCHANGED FatalOthers

\* one pass of the send loop or of the write loop: completed, or an
\* exception, or the loop is left without one (Ctrl+C, failed send)
LoopPass ==
    /\ k_prog \in {"sock", "shm"} /\ k_pc = "loop"
    /\ \/ /\ k_cycles < MaxFatalCycles
          /\ k_cycles' = k_cycles + 1
          /\ UNCHANGED << k_pc, k_error >>
       \/ RaisedInTry /\ UNCHANGED k_cycles
       \/ k_pc' = "finally" /\ UNCHANGED << k_error, k_cycles >>
    /\ UNCHANGED << k_held, k_attempted, k_exists, k_init, k_gpu_ptr >>
    /\ UNCHANGED FatalFixed
    /\ UNCHANGED FatalOthers

\* the finally block: a release call for each of its resources that was
\* acquired
Finally ==
    /\ k_pc = "finally"
    /\ k_attempted' = k_attempted \cup (k_held \cap finally_releases(k_prog))
    /\ k_held' = k_held \ finally_releases(k_prog)
    /\ k_exists' = (k_exists /\ "segment" \notin k_held)
    /\ k_pc' = "exited"
    /\ UNCHANGED << k_error, k_cycles, k_init, k_gpu_ptr >>
    /\ UNCHANGED FatalFixed
    /\ UNCHANGED FatalOthers

\* data_source_gpu.main: camera = GPUCameraCapture(...), and the return when
\* it raises
GpuCameraInit ==
    /\ k_prog = "gpu" /\ k_pc = "start"
    /\ LET r == GPUCameraCapture_init(k_env.pycuda, k_env.allocOk, k_env.opens)
       IN  /\ k_held' = k_held \cup r.held
           /\ k_init' = IF r.raised THEN "raised" ELSE "done"
           /\ k_pc' = IF r.raised THEN "exited" ELSE "create"
           /\ k_error' = r.raised
           /\ k_gpu_ptr' = r.gpu_ptr
    /\ UNCHANGED << k_attempted, k_exists, k_cycles >>
    /\ UNCHANGED FatalFixed
    /\ UNCHANGED FatalOthers

NextFatal ==
    \/ SockTestVideo \/ SockCreate \/ SockBind \/ SockAccept \/ SockOpenVideo
    \/ ShmCreate \/ ShmRecreate \/ ShmInterval \/ LoopPass \/ Finally
    \/ GpuCameraInit

SpecFatal == InitFatal /\ [][NextFatal]_vars

\* C22: when a producer has terminated because of an error, every resource
\* it had acquired (capture device, device buffer, listening socket, client
\* socket, shared-memory segment) was passed to a release call before the
\* exit, whichever step raised the error.
C22_CleanupOnEveryFatalPath ==
    (k_pc = "exited" /\ k_error) => k_held = {}

\* C24: GPUCameraCapture(...) returns whenever the camera opens; with a
\* successful device allocation camera.gpu_ptr is not 0, and with pycuda
\* missing or the allocation failing the producer goes on in host fallback
\* (gpu_ptr = 0) towards its write loop instead of ending.
C24_ExplicitFallback ==
    (k_prog = "gpu" /\ k_init # "none" /\ k_env.opens) =>
        /\ k_init = "done"
        /\ k_pc # "exited"
        /\ (k_env.pycuda /\ k_env.allocOk) => k_gpu_ptr # 0
        /\ ~(k_env.pycuda /\ k_env.allocOk) => k_gpu_ptr = 0

(***************************************************************************)
(* SpecGpuWrite: write_gpu_frame_to_shm called on a segment with any       *)
(* arguments read_to_gpu or a caller can pass.                             *)
(***************************************************************************)
MaxGpuWrites == 1

\* shapes (h, w, c) with each dimension up to one above its maximum, and None
GpuWriteShapes == Shapes \cup {<< >>}

\* device pointers: CPU mode, a device address, an address above 2^31
GpuWritePtrs == {0, DevPtr, IntCap}

InitGpuWrite ==
    /\ gshm \in {[n \in 1..GPU_SHM_TOTAL_SIZE |-> v] : v \in {0, 255}}
    /\ devmem = [n \in 1..SHM_DATA_SIZE |-> 0]
    /\ pycuda_avail = FALSE
    /\ torch_avail = FALSE
    /\ gop = "init" /\ gres = NoneTriple
    /\ ShmIdle /\ SockIdle /\ ConnIdle /\ AttIdle /\ GfIdle /\ RaceIdle
    /\ LifeIdle /\ SendIdle /\ LoopIdle /\ ProdIdle /\ FatalIdle /\ GwIdle /\ OrdIdle /\ SrcIdle /\ WarnIdle

\* write_gpu_frame_to_shm(shm, gpu_ptr, shape, frame_id)
GpuWriteCall ==
    /\ gw_calls < MaxGpuWrites
    /\ \E gpu_ptr \in GpuWritePtrs, shape \in GpuWriteShapes, frame_id \in {1, PriorFrames + 2} :
          LET r == write_gpu_frame_to_shm(gshm, gpu_ptr, shape, frame_id)
          IN  /\ gshm' = r.seg
              /\ gw_ret' = r.ret
              /\ gw_args' = [gpu_ptr |-> gpu_ptr, shape |-> shape, frame_id |-> frame_id]
    /\ gw_before' = gshm
    /\ gw_calls' = gw_calls + 1
    /\ UNCHANGED << devmem, pycuda_avail, torch_avail, gop, gres >>
    /\ UNCHANGED << shmVars, sockVars, connVars, attVars, gfVars, raceVars, lifeVars,
                    sendVars, loopVars, prodVars, fatalVars, ordVars, srcVars, warnVars >>

NextGpuWrite == GpuWriteCall

SpecGpuWrite == InitGpuWrite /\ [][NextGpuWrite]_vars

\* the CPU write accepts a frame of this shape
CpuWriteAccepts(shape) ==
    write_frame_to_shm(FreshSegment,
                       ZeroFrame(shape[1], shape[2], shape[3])).ret

C23_WitnessRejected ==
    /\ gw_calls > 0
    /\ ~gw_ret
    /\ gw_args.shape # << >>
    /\ gw_args.shape[3] > MAX_CHANNELS
    /\ gw_args.shape[1] <= MAX_HEIGHT /\ gw_args.shape[2] <= MAX_WIDTH

(***************************************************************************)
(* SpecOrder: data_source.py sending frames, inference.py receiving them   *)
(* call after call; a receive timeout can fall between the header and the  *)
(* payload of a frame.                                                     *)
(***************************************************************************)
\* the 1x4x1 frame with pixel bytes 1, 0, 0, 0
OneRowFrame == Frame(1, 4, 1, [t \in Index(1, 4, 1) |-> IF t[2] = 0 THEN 1 ELSE 0])

\* frames of the video source
OrderFrames == {RampFrame(2, 3, 1), OneRowFrame}

InitOrder ==
    /\ ShmIdle /\ GpuIdle /\ SockIdle /\ ConnIdle /\ AttIdle /\ GfIdle /\ RaceIdle
    /\ LifeIdle /\ SendIdle /\ LoopIdle /\ ProdIdle /\ FatalIdle /\ GwIdle /\ OrdIdle /\ SrcIdle /\ WarnIdle

\* data_source.py serves the connection
OrderServer == SendMetaOf(OrderFrames) \/ SendData \/ ServerClose

\* inference.main: frame = receive_frame(sock), the call
OrderRecvCall ==
    /\ r_calls = Len(received)
    /\ RecvCall

\* receive_frame runs
OrderRecv == RecvMeta \/ RecvData \/ RecvNothing

\* inference.main: receive_frame has returned, frame is assigned
OrderTake ==
    /\ r_pc = "idle"
    /\ r_calls = Len(received) + 1
    /\ received' = Append(received, r_ret)
    /\ o_clean' = (o_clean /\ r_why \notin {"timeout", "badhdr"})
    /\ UNCHANGED << shmVars, gpuVars, sockVars, connVars, attVars, gfVars, raceVars,
                    lifeVars, sendVars, loopVars, prodVars, fatalVars, gwVars, srcVars, warnVars >>

NextOrder == OrderServer \/ OrderRecvCall \/ OrderRecv \/ OrderTake

SpecOrder == InitOrder /\ [][NextOrder]_vars

\* C25: while the connection is open and no receive_frame call has timed
\* out or rejected a header, the frames the successive calls returned are
\* the first frames passed to send_frame, in the same order, none skipped,
\* none twice.
C25_SocketOrderPreserved ==
    (s_pc # "closed" /\ o_clean) =>
        /\ Len(received) <= Len(sent)
        /\ \A i \in 1..Len(received) : received[i] = sent[i]

\* two different frames sent and received in their order
C25_Witness ==
    /\ s_pc # "closed" /\ o_clean
    /\ Len(received) = 2
    /\ received[1] # received[2]
    /\ received = sent

\* C27: every frame a receive_frame call returns is one of the frames the
\* server sent, also when an earlier call has returned None for a timeout
\* in the middle of a frame or for a rejected header.
C27_StreamAlignment ==
    \A i \in 1..Len(received) :
        ~received[i].isNone => \E j \in 1..Len(sent) : received[i] = sent[j]

(***************************************************************************)
(* SpecSource: the read loop of a producer on its frame source: a video    *)
(* file, a camera or a folder of images.  Every frame read is published:   *)
(* sent by data_source.py, written by data_source_shm.py.  The loop keeps  *)
(* running (time.sleep returns), hence the weak fairness of its steps.     *)
(***************************************************************************)
MaxVideoLen == 3
MaxPublished == 5
MaxSkips == 3

InitSource ==
    /\ \E ps \in {<< "data_source", "video" >>, << "data_source_shm", "video" >>,
                   << "data_source_shm", "camera" >>,
                   << "data_source_shm", "images" >>} :
          /\ v_prog = ps[1]
          /\ v_source = ps[2]
          /\ v_len \in (IF ps[2] = "camera" THEN {0} ELSE 1..MaxVideoLen)
    /\ v_pos = 0
    /\ v_count = 0
    /\ v_skips = 0
    /\ v_at_end = FALSE
    /\ ShmIdle /\ GpuIdle /\ SockIdle /\ ConnIdle /\ AttIdle /\ GfIdle /\ RaceIdle
    /\ LifeIdle /\ SendIdle /\ LoopIdle /\ ProdIdle /\ FatalIdle /\ GwIdle /\ OrdIdle
    /\ WarnIdle

SourceOthers == << shmVars, gpuVars, sockVars, connVars, attVars, gfVars, raceVars,
                   lifeVars, sendVars, loopVars, prodVars, fatalVars, gwVars, ordVars,
                   warnVars >>

\* cap.read() delivers a frame and the producer publishes it
SrcReadFrame ==
    /\ v_count < MaxPublished
    /\ v_source = "video" => v_pos < v_len
    /\ v_pos' = after_frame_read(v_source, v_pos, v_len)
    /\ v_count' = v_count + 1
    /\ v_at_end' = FALSE
    /\ UNCHANGED << v_prog, v_source, v_len, v_skips >>
    /\ UNCHANGED SourceOthers

\* the read delivers no frame: the end of the video, or a camera frame or
\* an image that could not be read
SrcReadFails ==
    /\ v_count < MaxPublished
    /\ v_source = "video" => v_pos = v_len
    /\ v_pos' = after_failed_read(v_prog, v_source, v_pos, v_len)
    /\ v_skips' = Min(v_skips + 1, MaxSkips)
    /\ v_at_end' = (v_source = "video")
    /\ UNCHANGED << v_prog, v_source, v_len, v_count >>
    /\ UNCHANGED SourceOthers

NextSource == SrcReadFrame \/ SrcReadFails

SpecSource == InitSource /\ [][NextSource]_vars /\ WF_vars(NextSource)

\* C36: whenever the video reaches its end the producer starts again from
\* the first frame and publishes another frame, in the socket producer and
\* in the shared-memory producer.
C36_SourceRestart ==
    \A n \in 0..(MaxPublished - 1) :
        (v_source = "video" /\ v_at_end /\ v_count = n) ~> (v_count > n)

(***************************************************************************)
(* SpecWarn: the main loop of inference.py or inference_shm.py over many   *)
(* cycles, each read returning a frame or None.                            *)
(***************************************************************************)
MaxWarnCycles == 62

InitWarn ==
    /\ lp_which \in {"sock", "shm"}
    /\ lp_pc = "read"
    /\ last_frame = None
    /\ no_frame_count = 0
    /\ lp_cycles = 0
    /\ lp_read = None
    /\ lp_inferred = FALSE
    /\ lp_arg = None
    /\ lp_good = None
    /\ lp_closed = FALSE
    /\ ShmIdle /\ GpuIdle /\ SockIdle /\ ConnIdle /\ AttIdle /\ GfIdle /\ RaceIdle
    /\ LifeIdle /\ SendIdle /\ ProdIdle /\ FatalIdle /\ GwIdle /\ OrdIdle /\ SrcIdle
    /\ WarnIdle

\* one cycle of the loop: the read returns None or a frame, the None branch
\* counts and may warn, the frame branch resets no_frame_count
WarnCycle ==
    /\ lp_pc = "read"
    /\ lp_cycles < MaxWarnCycles
    /\ \E frame \in {None, ZeroFrame(1, 1, 1)} :
          /\ LoopBody(frame, FALSE)
          /\ wn_warned' = (frame.isNone
                             /\ warns_no_frame(count_no_frame(frame, no_frame_count)))
          /\ wn_run' = IF frame.isNone THEN wn_run + 1 ELSE 0
    /\ wn_warnings' = IF wn_warned' THEN wn_warnings + 1 ELSE wn_warnings
    /\ UNCHANGED << shmVars, gpuVars, sockVars, connVars, attVars, gfVars, raceVars,
                    lifeVars, sendVars, prodVars, fatalVars, gwVars, ordVars, srcVars >>

NextWarn == WarnCycle

SpecWarn == InitWarn /\ [][NextWarn]_vars

\* C37: in a run of consecutive cycles without a frame, the consumer warns
\* in the 1st cycle and in every 30th cycle of the run and in no other; the
\* first read that returns a frame sets the failure counter to 0, so the
\* next run warns in its 1st cycle again.
C37_RateLimitedWarnings ==
    lp_cycles > 0 =>
        /\ no_frame_count = wn_run
        /\ wn_warned <=> (lp_read.isNone /\ (wn_run = 1 \/ wn_run % 30 = 0))
        /\ ~lp_read.isNone => no_frame_count = 0

\* 60 cycles without a frame (warnings in the 1st, 30th and 60th), a frame,
\* and the first cycle of the next run, which warns
C37_Witness ==
    /\ lp_cycles = 62
    /\ wn_run = 1 /\ no_frame_count = 1
    /\ wn_warned
    /\ wn_warnings = 4
    /\ ~lp_good.isNone

\* the 30th cycle of a run warns
C37_WitnessThirtieth ==
    /\ wn_run = 30 /\ wn_warned /\ wn_warnings = 2

====
